---- MODULE Spec2Model ----
(***************************************************************************)
(* Model of the task store of the voice assistant (task_manager.py):       *)
(* the in-memory dictionary self.tasks, the JSON file it is persisted to,  *)
(* and the operations of TaskManager; and of the voice command loop that   *)
(* drives it (Synbi.py: speak, command, main_process).                     *)
(*                                                                         *)
(* Python strings that the code inspects (task text, identifiers,          *)
(* priorities, search terms) are sequences of one-character strings, so    *)
(* that strip(), lower(), `in` and int() are computed, not assumed.        *)
(* datetime.now() is an input of the operations: a value of Times.         *)
(***************************************************************************)
EXTENDS Integers, Sequences, FiniteSets, TLC

VARIABLES tasks, file, lastOp,
          pc, caller, attempt, event, ret, request, branch, said,
          disk, fpc, cattempt, response, confirmation, fileOp,
          peer, session,
          is_running, pcs, fb, seen, clock, last_feedback_time, lastDelivered,
          last_click_type, click_reset_required, elapsed, last_hand_position,
          finger_count, issued, unreleased

vars == <<tasks, file, lastOp, pc, caller, attempt, event, ret, request, branch, said,
          disk, fpc, cattempt, response, confirmation, fileOp,
          peer, session,
          is_running, pcs, fb, seen, clock, last_feedback_time, lastDelivered,
          last_click_type, click_reset_required, elapsed, last_hand_position,
          finger_count, issued, unreleased>>

\* the state of the task store and the state of the voice command loop
storeVars == <<tasks, file, lastOp>>

loopVars == <<pc, caller, attempt, event, ret, request, branch, said>>

\* the disk entries one file operation works on and the position of that call
fileVars == <<disk, fpc, cattempt, response, confirmation, fileOp>>

\* a second TaskManager on the same file: its store while the other is at
\* work, and which of the two is at work
sessionVars == <<peer, session>>

\* the gesture controller: its run flag, the position of the main thread and
\* of each worker thread, the position of each thread inside
\* _provide_feedback with the time it read, the time, the stamp of the last
\* feedback, and the time the last delivery fired
gestureVars == <<is_running, pcs, fb, seen, clock, last_feedback_time, lastDelivered>>

\* the frames of the gesture loop: the click debounce, the time since the
\* last gesture, whether a hand position is known, the finger count of the
\* last frame, the mouse action it issued, and whether a finger click has
\* fired that no frame without two or three fingers has followed
clickVars == <<last_click_type, click_reset_required, elapsed, last_hand_position,
               finger_count, issued, unreleased>>

\* everything outside the task store and the command loop
extVars == <<fileVars, sessionVars, gestureVars, clickVars>>

(***************************************************************************)
(* Bounds of the model.                                                    *)
(***************************************************************************)
MaxTasks == 2

\* worker threads that can be alive together, and the last tick of the clock
MaxWorkers == 2
MaxClock == 3

(***************************************************************************)
(* Python string primitives, over the characters the inputs below use:     *)
(* ASCII letters, digits, blank and tab.                                   *)
(***************************************************************************)
Whitespace == {" ", "\t"}

Digits == {"0", "1", "2", "3", "4", "5", "6", "7", "8", "9"}

DigitVal == ("0" :> 0) @@ ("1" :> 1) @@ ("2" :> 2) @@ ("3" :> 3) @@ ("4" :> 4)
            @@ ("5" :> 5) @@ ("6" :> 6) @@ ("7" :> 7) @@ ("8" :> 8) @@ ("9" :> 9)

UpperToLower == ("A" :> "a") @@ ("B" :> "b") @@ ("C" :> "c") @@ ("D" :> "d")
                @@ ("E" :> "e") @@ ("F" :> "f") @@ ("G" :> "g") @@ ("H" :> "h")
                @@ ("I" :> "i") @@ ("J" :> "j") @@ ("K" :> "k") @@ ("L" :> "l")
                @@ ("M" :> "m") @@ ("N" :> "n") @@ ("O" :> "o") @@ ("P" :> "p")
                @@ ("Q" :> "q") @@ ("R" :> "r") @@ ("S" :> "s") @@ ("T" :> "t")
                @@ ("U" :> "u") @@ ("V" :> "v") @@ ("W" :> "w") @@ ("X" :> "x")
                @@ ("Y" :> "y") @@ ("Z" :> "z")

\* str.lower()
LowerChar(c) == IF c \in DOMAIN UpperToLower THEN UpperToLower[c] ELSE c

Lower(s) == [i \in 1..Len(s) |-> LowerChar(s[i])]

\* str.strip(): drop the leading and the trailing whitespace
RECURSIVE LStrip(_)
LStrip(s) == IF s # <<>> /\ Head(s) \in Whitespace THEN LStrip(Tail(s)) ELSE s

\* (variant: trailing whitespace is kept)
RStrip_Off(s) == s

RECURSIVE RStrip(_)
RStrip(s) == IF s # <<>> /\ s[Len(s)] \in Whitespace
             THEN RStrip(SubSeq(s, 1, Len(s) - 1)) ELSE s

\* (variant: the text is taken as given)
Strip_Off(s) == s

Strip(s) == RStrip(LStrip(s))

\* needle in hay (substring test; the empty string is in every string)
Contains(needle, hay) ==
    \E i \in 0..(Len(hay) - Len(needle)) :
        SubSeq(hay, i + 1, i + Len(needle)) = needle

\* int(s): surrounding whitespace is ignored, one optional sign, then
\* decimal digits; anything else raises ValueError (ok = FALSE)
RECURSIVE DigitsValue(_)
DigitsValue(d) == IF d = <<>> THEN 0
                  ELSE 10 * DigitsValue(SubSeq(d, 1, Len(d) - 1)) + DigitVal[d[Len(d)]]

ParseInt(s) ==
    LET body   == Strip(s)
        signed == body # <<>> /\ Head(body) \in {"+", "-"}
        digs   == IF signed THEN Tail(body) ELSE body
        valid  == digs # <<>> /\ \A i \in 1..Len(digs) : digs[i] \in Digits
    IN  IF valid
        THEN [ok |-> TRUE,
              val |-> IF signed /\ Head(body) = "-"
                      THEN 0 - DigitsValue(digs) ELSE DigitsValue(digs)]
        ELSE [ok |-> FALSE, val |-> 0]

(***************************************************************************)
(* String literals of the code, as character sequences.                    *)
(***************************************************************************)
MEDIUM == <<"m", "e", "d", "i", "u", "m">>

\* the status literals are only assigned and written out, never inspected
PENDING == "pending"

COMPLETED == "completed"

(***************************************************************************)
(* Python values of the optional fields (due_date, completed_date): None   *)
(* or a str.                                                               *)
(***************************************************************************)
PyNone == [t |-> "None", s |-> <<>>]

PyStr(s) == [t |-> "str", s |-> s]

\* datetime.datetime.now().isoformat(): the text printed for clock value ts
DigitChar == <<"0", "1", "2", "3", "4", "5", "6", "7", "8", "9">>

RECURSIVE IntToStr(_)
IntToStr(n) == IF n < 10 THEN <<DigitChar[n + 1]>>
               ELSE IntToStr(n \div 10) \o <<DigitChar[(n % 10) + 1]>>

IsoFormat(ts) == <<"T">> \o IntToStr(ts)

(***************************************************************************)
(* JSON, as json.dump writes it and json.load reads it back: a Python int  *)
(* is written as a number, a str as a string, None as null, a list as an   *)
(* array, a dict as an object with the same keys.                          *)
(***************************************************************************)
JNull == [t |-> "null", n |-> 0, s |-> <<>>]

JNum(n) == [t |-> "number", n |-> n, s |-> <<>>]

JStr(s) == [t |-> "string", n |-> 0, s |-> s]

\* (variant: None is written as the string "None")
DumpOpt_Str(v) == JStr(IF v.t = "None" THEN <<"N", "o", "n", "e">> ELSE v.s)

\* encoding of an Optional[str]
DumpOpt(v) == IF v.t = "None" THEN JNull ELSE JStr(v.s)

\* decoding of a JSON null or string
LoadOpt(j) == IF j.t = "null" THEN PyNone ELSE PyStr(j.s)

DumpTask(task) ==
    [id             |-> JNum(task.id),
     text           |-> JStr(task.text),
     priority       |-> JStr(task.priority),
     status         |-> JStr(task.status),
     created        |-> JStr(task.created),
     due_date       |-> DumpOpt(task.due_date),
     completed_date |-> DumpOpt(task.completed_date)]

LoadTask(j) ==
    [id             |-> j.id.n,
     text           |-> j.text.s,
     priority       |-> j.priority.s,
     status         |-> j.status.s,
     created        |-> j.created.s,
     due_date       |-> LoadOpt(j.due_date),
     completed_date |-> LoadOpt(j.completed_date)]

\* json.dump(self.tasks, file)
JsonDump(store) ==
    [tasks         |-> [i \in 1..Len(store.tasks) |-> DumpTask(store.tasks[i])],
     completed     |-> [i \in 1..Len(store.completed) |-> DumpTask(store.completed[i])],
     created_date  |-> JStr(store.created_date),
     last_modified |-> JStr(store.last_modified)]

\* json.load(file)
JsonLoad(doc) ==
    [tasks         |-> [i \in 1..Len(doc.tasks) |-> LoadTask(doc.tasks[i])],
     completed     |-> [i \in 1..Len(doc.completed) |-> LoadTask(doc.completed[i])],
     created_date  |-> doc.created_date.s,
     last_modified |-> doc.last_modified.s]

(***************************************************************************)
(* The persisted file: missing, a JSON document, or bytes that do not      *)
(* parse (a write that was cut short).                                     *)
(***************************************************************************)
NoDoc == [tasks |-> <<>>, completed |-> <<>>, created_date |-> JNull,
          last_modified |-> JNull]

MissingFile == [kind |-> "missing", doc |-> NoDoc]

CorruptFile == [kind |-> "corrupt", doc |-> NoDoc]

JsonFile(doc) == [kind |-> "json", doc |-> doc]

\* a file of valid JSON that is not a document save_tasks wrote
ForeignFile(doc) == [kind |-> "foreign", doc |-> doc]

\* json.load on such a text: a dict without keys, a list without items
JsonLoadAny(doc) == IF doc.t = "object" THEN [py |-> "dict"] ELSE [py |-> "list"]

\* the new tasks structure of load_tasks
NewStore(now) ==
    [tasks |-> <<>>, completed |-> <<>>,
     created_date |-> IsoFormat(now), last_modified |-> IsoFormat(now)]

\* (variant: only a missing file gives the new structure, any file that is
\* present is handed to the parser)
load_tasks_ParseAnyway(f, now) ==
    IF f.kind = "missing" THEN NewStore(now) ELSE JsonLoad(f.doc)

\* TaskManager.load_tasks: the parsed file, or a new structure when the
\* file does not exist or reading it raises
load_tasks(f, now) ==
    IF f.kind = "json" THEN JsonLoad(f.doc)
    ELSE IF f.kind = "foreign" THEN JsonLoadAny(f.doc)
    ELSE NewStore(now)

\* Outcomes of one save_tasks call: the document is written, or the write
\* raises after open(file_path, 'w') has truncated the file.
SaveOutcomes == {"ok", "write_error"}

\* (variant: every save also stamps the completed tasks with its own time)
save_tasks_Restamp(store, f, now, outcome) ==
    LET stamped == [store EXCEPT
                        !.last_modified = IsoFormat(now),
                        !.completed = [i \in 1..Len(@) |->
                                           [@[i] EXCEPT !.completed_date =
                                                            PyStr(IsoFormat(now))]]]
    IN  [store |-> stamped,
         file  |-> IF outcome = "ok" THEN JsonFile(JsonDump(stamped)) ELSE CorruptFile,
         ok    |-> outcome = "ok"]

\* TaskManager.save_tasks: last_modified is set before the file is opened
save_tasks(store, f, now, outcome) ==
    LET stamped == [store EXCEPT !.last_modified = IsoFormat(now)]
    IN  [store |-> stamped,
         file  |-> IF outcome = "ok" THEN JsonFile(JsonDump(stamped))
                   ELSE CorruptFile,
         ok    |-> outcome = "ok"]

(***************************************************************************)
(* List primitives used by the operations.                                 *)
(***************************************************************************)
\* list.pop(i), i counted from 1
RemoveAt(seq, i) == SubSeq(seq, 1, i - 1) \o SubSeq(seq, i + 1, Len(seq))

\* index of the first element equal to x, 0 when there is none
FirstEqual(seq, x) ==
    IF \E i \in 1..Len(seq) : seq[i] = x
    THEN CHOOSE i \in 1..Len(seq) :
             seq[i] = x /\ \A j \in 1..(i - 1) : seq[j] # x
    ELSE 0

\* (variant: the element is left in the list)
ListRemove_Kept(seq, x) == seq

\* list.remove(x): drops the first element that compares equal to x
ListRemove(seq, x) == RemoveAt(seq, FirstEqual(seq, x))

\* (variant: the number is taken as a position in the list)
FirstIdMatch_ByPosition(pending, task_id) ==
    IF task_id \in 1..Len(pending) THEN task_id ELSE 0

\* for i, task in enumerate(pending): if task["id"] == task_id -> first hit
FirstIdMatch(pending, task_id) ==
    IF \E i \in 1..Len(pending) : pending[i].id = task_id
    THEN CHOOSE i \in 1..Len(pending) :
             pending[i].id = task_id
             /\ \A j \in 1..(i - 1) : pending[j].id # task_id
    ELSE 0

\* if task_text in task["text"].lower(), task_text = identifier.lower()
TextHit(task, task_identifier) == Contains(Lower(task_identifier), Lower(task.text))

\* (variant: the loop variable is used after a loop without a hit)
FirstTextMatch_OrFirst(pending, task_identifier) ==
    IF \E i \in 1..Len(pending) : TextHit(pending[i], task_identifier)
    THEN CHOOSE i \in 1..Len(pending) :
             TextHit(pending[i], task_identifier)
             /\ \A j \in 1..(i - 1) : ~TextHit(pending[j], task_identifier)
    ELSE IF pending # <<>> THEN 1 ELSE 0

\* (variant: the last hit instead of the first)
FirstTextMatch_Last(pending, task_identifier) ==
    IF \E i \in 1..Len(pending) : TextHit(pending[i], task_identifier)
    THEN CHOOSE i \in 1..Len(pending) :
             TextHit(pending[i], task_identifier)
             /\ \A j \in (i + 1)..Len(pending) : ~TextHit(pending[j], task_identifier)
    ELSE 0

\* for i, task in enumerate(pending): if task_text in ... -> first hit
FirstTextMatch(pending, task_identifier) ==
    IF \E i \in 1..Len(pending) : TextHit(pending[i], task_identifier)
    THEN CHOOSE i \in 1..Len(pending) :
             TextHit(pending[i], task_identifier)
             /\ \A j \in 1..(i - 1) : ~TextHit(pending[j], task_identifier)
    ELSE 0

\* two-phase resolution of delete_task and complete_task: int() first, the
\* text loop only in the ValueError handler
ResolveTask(pending, task_identifier) ==
    LET p == ParseInt(task_identifier)
    IN  IF p.ok THEN [by |-> "id", index |-> FirstIdMatch(pending, p.val)]
        ELSE [by |-> "text", index |-> FirstTextMatch(pending, task_identifier)]

(***************************************************************************)
(* Return values.                                                          *)
(***************************************************************************)
Msg(m, text, n) == [msg |-> m, text |-> text, n |-> n]

NoResult == Msg("", <<>>, 0)

NotFoundMsg(by) == IF by = "id" THEN Msg("Task not found with that ID.", <<>>, 0)
                   ELSE Msg("Task not found with that text.", <<>>, 0)

\* record of the last call: its name and arguments, what it returned, how
\* many times it called save_tasks, and the list search_tasks returned
Call(op, arg, priority, result, saves, found) ==
    [op |-> op, arg |-> arg, priority |-> priority,
     result |-> result, saves |-> saves, found |-> found]

(***************************************************************************)
(* Arguments the operations are called with.                               *)
(***************************************************************************)
HIGH == <<"H", "I", "G", "H">>

AddArgs == { <<<<>>, MEDIUM, PyNone>>,
             <<<<" ">>, MEDIUM, PyNone>>,
             <<<<" ", "A", "b", " ">>, HIGH, PyNone>>,
             <<<<"b", "2">>, MEDIUM, PyNone>> }

Identifiers == { <<"1">>, <<"2">>, <<"A">>, <<"b">> }

SearchTerms == { <<"B">>, <<"2">> }

\* what datetime.datetime.now() may return
Times == { 0 }

(***************************************************************************)
(* Initial state: first start, no file yet; TaskManager() has run.         *)
(***************************************************************************)
InitStore ==
    /\ file = MissingFile
    /\ \E now \in Times : tasks = load_tasks(MissingFile, now)
    /\ lastOp = Call("__init__", <<>>, <<>>, NoResult, 0, <<>>)

\* the task manager used on its own: main_process is not running
LoopOff ==
    /\ pc = "off"
    /\ caller = ""
    /\ attempt = 0
    /\ event = ""
    /\ ret = [kind |-> "none", text |-> <<>>]
    /\ request = <<>>
    /\ branch = ""
    /\ said = <<>>

\* no file operation has been asked for: an empty disk and no call in progress
FilesOff ==
    /\ disk = [src |-> [kind |-> "none", data |-> "", readable |-> FALSE],
               to_folder |-> FALSE,
               dst |-> [kind |-> "none", data |-> "", readable |-> FALSE]]
    /\ fpc = "off"
    /\ cattempt = 0
    /\ response = [event |-> "none", text |-> <<>>]
    /\ confirmation = ""
    /\ fileOp = [op |-> "", result |-> "", removals |-> 0]

\* one TaskManager only
SessionsOff ==
    /\ peer = <<>>
    /\ session = 0

\* threads of the gesture controller: the main thread and the workers
MAIN == 0

Workers == 1..MaxWorkers

Threads == {MAIN} \cup Workers

\* no value: the attribute _last_feedback_time is not set, nothing delivered
Unset == -1

\* the controller as constructed: not running, no worker thread
GestureOff ==
    /\ is_running = FALSE
    /\ pcs = [t \in Threads |-> IF t = MAIN THEN "idle" ELSE "none"]
    /\ fb = [t \in Threads |-> "out"]
    /\ seen = [t \in Threads |-> 0]
    /\ clock = 0
    /\ last_feedback_time = Unset
    /\ lastDelivered = Unset

\* hundredths of a second between two gestures, line 58 (0.35 s)
gesture_cooldown == 35

\* the time since the last gesture is kept up to just past the cooldown
Cooled == gesture_cooldown + 1

\* the gesture loop as constructed: no click made, no frame seen
ClicksOff ==
    /\ last_click_type = "None"
    /\ click_reset_required = FALSE
    /\ elapsed = Cooled
    /\ last_hand_position = "None"
    /\ finger_count = 0
    /\ issued = "none"
    /\ unreleased = FALSE

ExtOff == FilesOff /\ SessionsOff /\ GestureOff /\ ClicksOff

Init == InitStore /\ LoopOff /\ ExtOff

\* a new process: TaskManager.__init__ loads the file again
Restart(now) ==
    /\ tasks' = load_tasks(file, now)
    /\ file' = file
    /\ lastOp' = Call("__init__", <<>>, <<>>, NoResult, 0, <<>>)

\* (variant: the new task is appended but save_tasks is not called)
AddTask_Unsaved(task_text, priority, due_date, now) ==
    IF Strip(task_text) = <<>>
    THEN /\ tasks' = tasks
         /\ file' = file
         /\ lastOp' = Call("add_task", task_text, priority,
                           Msg("Error: Task cannot be empty.", <<>>, 0), 0, <<>>)
    ELSE LET new_task == [id             |-> Len(tasks.tasks) + 1,
                          text           |-> Strip(task_text),
                          priority       |-> Lower(priority),
                          status         |-> PENDING,
                          created        |-> IsoFormat(now),
                          due_date       |-> due_date,
                          completed_date |-> PyNone]
         IN  /\ Len(tasks.tasks) + Len(tasks.completed) < MaxTasks
             /\ tasks' = [tasks EXCEPT !.tasks = Append(@, new_task)]
             /\ file' = file
             /\ lastOp' = Call("add_task", task_text, priority,
                               Msg("Task added successfully: ", Strip(task_text), 0),
                               0, <<>>)

\* TaskManager.add_task (the store holds at most MaxTasks tasks)
AddTask(task_text, priority, due_date, now) ==
    IF Strip(task_text) = <<>>
    THEN /\ tasks' = tasks
         /\ file' = file
         /\ lastOp' = Call("add_task", task_text, priority,
                           Msg("Error: Task cannot be empty.", <<>>, 0), 0, <<>>)
    ELSE \E outcome \in SaveOutcomes :
         LET new_task == [id             |-> Len(tasks.tasks) + 1,
                          text           |-> Strip(task_text),
                          priority       |-> Lower(priority),
                          status         |-> PENDING,
                          created        |-> IsoFormat(now),
                          due_date       |-> due_date,
                          completed_date |-> PyNone]
             appended == [tasks EXCEPT !.tasks = Append(@, new_task)]
             saved    == save_tasks(appended, file, now, outcome)
         IN  /\ Len(tasks.tasks) + Len(tasks.completed) < MaxTasks
             /\ tasks' = saved.store
             /\ file' = saved.file
             /\ lastOp' = Call("add_task", task_text, priority,
                               IF saved.ok
                               THEN Msg("Task added successfully: ", Strip(task_text), 0)
                               ELSE Msg("Error: Could not save task.", <<>>, 0),
                               1, <<>>)

\* TaskManager.delete_task
DeleteTask(task_identifier, now) ==
    LET r == ResolveTask(tasks.tasks, task_identifier)
    IN  IF r.index = 0
        THEN /\ tasks' = tasks
             /\ file' = file
             /\ lastOp' = Call("delete_task", task_identifier, <<>>,
                               NotFoundMsg(r.by), 0, <<>>)
        ELSE \E outcome \in SaveOutcomes :
             LET deleted_task == tasks.tasks[r.index]
                 popped == [tasks EXCEPT !.tasks = RemoveAt(@, r.index)]
                 saved  == save_tasks(popped, file, now, outcome)
             IN  /\ tasks' = saved.store
                 /\ file' = saved.file
                 /\ lastOp' = Call("delete_task", task_identifier, <<>>,
                                   Msg("Task deleted: ", deleted_task.text, 0),
                                   1, <<>>)

\* TaskManager.complete_task: the matched dict is changed in place, appended
\* to completed, then removed from pending with list.remove
CompleteTask(task_identifier, now) ==
    LET r == ResolveTask(tasks.tasks, task_identifier)
    IN  IF r.index = 0
        THEN /\ tasks' = tasks
             /\ file' = file
             /\ lastOp' = Call("complete_task", task_identifier, <<>>,
                               NotFoundMsg(r.by), 0, <<>>)
        ELSE \E outcome \in SaveOutcomes :
             LET task   == [tasks.tasks[r.index] EXCEPT
                                !.status = COMPLETED,
                                !.completed_date = PyStr(IsoFormat(now))]
                 marked == [tasks.tasks EXCEPT ![r.index] = task]
                 moved  == [tasks EXCEPT
                                !.completed = Append(@, task),
                                !.tasks = ListRemove(marked, task)]
                 saved  == save_tasks(moved, file, now, outcome)
             IN  /\ tasks' = saved.store
                 /\ file' = saved.file
                 /\ lastOp' = Call("complete_task", task_identifier, <<>>,
                                   Msg("Task completed: ", task.text, 0),
                                   1, <<>>)

\* TaskManager.clear_completed_tasks
ClearCompletedTasks(now) ==
    \E outcome \in SaveOutcomes :
        LET count   == Len(tasks.completed)
            cleared == [tasks EXCEPT !.completed = <<>>]
            saved   == save_tasks(cleared, file, now, outcome)
        IN  /\ tasks' = saved.store
            /\ file' = saved.file
            /\ lastOp' = Call("clear_completed_tasks", <<>>, <<>>,
                              Msg("Cleared", <<>>, count), 1, <<>>)

\* (variant: the texts are compared without lower())
Matching_CaseSensitive(pending, search_term) ==
    LET Hit(task) == Contains(search_term, task.text)
    IN  SelectSeq(pending, Hit)

\* the list comprehension of search_tasks
RECURSIVE Matching(_, _)
Matching(pending, search_term) ==
    IF pending = <<>> THEN <<>>
    ELSE (IF Contains(Lower(search_term), Lower(Head(pending).text))
          THEN <<Head(pending)>> ELSE <<>>)
         \o Matching(Tail(pending), search_term)

\* TaskManager.search_tasks
SearchTasks(search_term) ==
    /\ tasks' = tasks
    /\ file' = file
    /\ lastOp' = Call("search_tasks", search_term, <<>>, NoResult, 0,
                      Matching(tasks.tasks, search_term))

Next ==
    \/ \E now \in Times : Restart(now) /\ UNCHANGED <<loopVars, extVars>>
    \/ \E a \in AddArgs, now \in Times :
           AddTask(a[1], a[2], a[3], now) /\ UNCHANGED <<loopVars, extVars>>
    \/ \E task_identifier \in Identifiers, now \in Times :
           DeleteTask(task_identifier, now) /\ UNCHANGED <<loopVars, extVars>>
    \/ \E task_identifier \in Identifiers, now \in Times :
           CompleteTask(task_identifier, now) /\ UNCHANGED <<loopVars, extVars>>
    \/ \E now \in Times : ClearCompletedTasks(now) /\ UNCHANGED <<loopVars, extVars>>
    \/ \E search_term \in SearchTerms :
           SearchTasks(search_term) /\ UNCHANGED <<loopVars, extVars>>

Spec == Init /\ [][Next]_vars

(***************************************************************************)
(* The same store driven at two instants, so that a timestamp written by   *)
(* one call differs from the one a later call would write.  One task text  *)
(* and two identifiers keep the state space small.                         *)
(***************************************************************************)
Instants == { 0, 1 }

InstantTexts == { <<"b", "2">> }

InstantIdentifiers == { <<"1">>, <<"b">> }

NextInstants ==
    \/ \E now \in Instants : Restart(now) /\ UNCHANGED <<loopVars, extVars>>
    \/ \E task_text \in InstantTexts, now \in Instants :
           AddTask(task_text, MEDIUM, PyNone, now) /\ UNCHANGED <<loopVars, extVars>>
    \/ \E task_identifier \in InstantIdentifiers, now \in Instants :
           DeleteTask(task_identifier, now) /\ UNCHANGED <<loopVars, extVars>>
    \/ \E task_identifier \in InstantIdentifiers, now \in Instants :
           CompleteTask(task_identifier, now) /\ UNCHANGED <<loopVars, extVars>>
    \/ \E now \in Instants : ClearCompletedTasks(now) /\ UNCHANGED <<loopVars, extVars>>

SpecInstants == Init /\ [][NextInstants]_vars

(***************************************************************************)
(* The voice command loop of Synbi.py: speak, command and main_process.    *)
(* pc is the place of main_process: "off" (not running), "boot" (before    *)
(* line 340), "command" (inside a command() call), "returned" (the call    *)
(* has returned or raised, its caller has not continued yet), "stopped"    *)
(* (main_process returned) and "crashed" (an exception left main_process). *)
(* caller is "" for the call of line 343 and the name of the branch for a  *)
(* follow-up call made inside a branch.  attempt counts the passes of the  *)
(* for loop of the running call, event is the outcome of the last pass,    *)
(* ret the value the call returned.  request and branch are the utterance  *)
(* being handled and the branch of the if/elif chain it reached; said      *)
(* lists the messages the last step spoke.                                 *)
(***************************************************************************)
\* str.replace(old, "")
RECURSIVE Remove(_, _)
Remove(s, old) ==
    IF old = <<>> \/ Len(s) < Len(old) THEN s
    ELSE IF SubSeq(s, 1, Len(old)) = old
         THEN Remove(SubSeq(s, Len(old) + 1, Len(s)), old)
         ELSE <<Head(s)>> \o Remove(Tail(s), old)

\* the elif chain of main_process, lines 351-844, in its order: a row is
\* taken when all phrases of one of its alternatives occur in the utterance
Triggers == <<
    [branch |-> "hello",
     any    |-> {{<<"h", "e", "l", "l", "o">>}}],   \* line 351
    [branch |-> "play spotify",
     any    |-> {{<<"p", "l", "a", "y", " ", "s", "p", "o", "t", "i", "f", "y">>}}],   \* line 355
    [branch |-> "pause spotify",
     any    |-> {{<<"p", "a", "u", "s", "e", " ", "s", "p", "o", "t", "i", "f", "y">>},
                  {<<"s", "t", "o", "p", " ", "s", "p", "o", "t", "i", "f", "y">>}}],   \* line 362
    [branch |-> "resume spotify",
     any    |-> {{<<"r", "e", "s", "u", "m", "e", " ", "s", "p", "o", "t", "i", "f", "y">>}}],   \* line 364
    [branch |-> "next song",
     any    |-> {{<<"n", "e", "x", "t", " ", "s", "o", "n", "g">>}}],   \* line 366
    [branch |-> "previous song",
     any    |-> {{<<"p", "r", "e", "v", "i", "o", "u", "s", " ", "s", "o", "n", "g">>}}],   \* line 368
    [branch |-> "shuffle on",
     any    |-> {{<<"s", "h", "u", "f", "f", "l", "e", " ", "o", "n">>}}],   \* line 370
    [branch |-> "shuffle off",
     any    |-> {{<<"s", "h", "u", "f", "f", "l", "e", " ", "o", "f", "f">>}}],   \* line 372
    [branch |-> "repeat song",
     any    |-> {{<<"r", "e", "p", "e", "a", "t", " ", "s", "o", "n", "g">>}}],   \* line 374
    [branch |-> "repeat playlist",
     any    |-> {{<<"r", "e", "p", "e", "a", "t", " ", "p", "l", "a", "y", "l", "i", "s", "t">>}}],   \* line 376
    [branch |-> "repeat off",
     any    |-> {{<<"r", "e", "p", "e", "a", "t", " ", "o", "f", "f">>}}],   \* line 378
    [branch |-> "spotify status",
     any    |-> {{<<"s", "p", "o", "t", "i", "f", "y", " ", "s", "t", "a", "t", "u", "s">>}}],   \* line 380
    [branch |-> "play youtube",
     any    |-> {{<<"p", "l", "a", "y">>, <<"y", "o", "u", "t", "u", "b", "e">>},
                  {<<"p", "l", "a", "y">>, <<"v", "i", "d", "e", "o">>},
                  {<<"p", "l", "a", "y">>, <<"s", "o", "n", "g">>},
                  {<<"p", "l", "a", "y">>, <<"m", "u", "s", "i", "c">>}}],   \* line 384
    [branch |-> "pause youtube",
     any    |-> {{<<"p", "a", "u", "s", "e", " ", "y", "o", "u", "t", "u", "b", "e">>},
                  {<<"p", "a", "u", "s", "e", " ", "v", "i", "d", "e", "o">>}}],   \* line 393
    [branch |-> "resume youtube",
     any    |-> {{<<"r", "e", "s", "u", "m", "e", " ", "y", "o", "u", "t", "u", "b", "e">>},
                  {<<"r", "e", "s", "u", "m", "e", " ", "v", "i", "d", "e", "o">>}}],   \* line 400
    [branch |-> "next youtube",
     any    |-> {{<<"n", "e", "x", "t", " ", "y", "o", "u", "t", "u", "b", "e">>},
                  {<<"n", "e", "x", "t", " ", "v", "i", "d", "e", "o">>}}],   \* line 407
    [branch |-> "previous youtube",
     any    |-> {{<<"p", "r", "e", "v", "i", "o", "u", "s", " ", "y", "o", "u", "t", "u", "b", "e">>},
                  {<<"p", "r", "e", "v", "i", "o", "u", "s", " ", "v", "i", "d", "e", "o">>}}],   \* line 417
    [branch |-> "mute youtube",
     any    |-> {{<<"m", "u", "t", "e", " ", "y", "o", "u", "t", "u", "b", "e">>},
                  {<<"m", "u", "t", "e", " ", "v", "i", "d", "e", "o">>}}],   \* line 427
    [branch |-> "fullscreen youtube",
     any    |-> {{<<"f", "u", "l", "l", "s", "c", "r", "e", "e", "n", " ", "y", "o", "u", "t", "u", "b", "e">>},
                  {<<"f", "u", "l", "l", "s", "c", "r", "e", "e", "n", " ", "v", "i", "d", "e", "o">>}}],   \* line 434
    [branch |-> "take picture",
     any    |-> {{<<"t", "a", "k", "e", " ", "p", "i", "c", "t", "u", "r", "e">>},
                  {<<"t", "a", "k", "e", " ", "a", " ", "p", "h", "o", "t", "o">>}}],   \* line 448
    [branch |-> "record video",
     any    |-> {{<<"r", "e", "c", "o", "r", "d", " ", "v", "i", "d", "e", "o">>}}],   \* line 452
    [branch |-> "take screenshot",
     any    |-> {{<<"t", "a", "k", "e", " ", "s", "c", "r", "e", "e", "n", "s", "h", "o", "t">>},
                  {<<"s", "c", "r", "e", "e", "n", "s", "h", "o", "t">>}}],   \* line 457
    [branch |-> "internet speed",
     any    |-> {{<<"i", "n", "t", "e", "r", "n", "e", "t", " ", "s", "p", "e", "e", "d">>},
                  {<<"n", "e", "t", "w", "o", "r", "k", " ", "s", "p", "e", "e", "d">>},
                  {<<"c", "h", "e", "c", "k", " ", "i", "n", "t", "e", "r", "n", "e", "t">>}}],   \* line 463
    [branch |-> "battery status",
     any    |-> {{<<"b", "a", "t", "t", "e", "r", "y", " ", "s", "t", "a", "t", "u", "s">>},
                  {<<"b", "a", "t", "t", "e", "r", "y", " ", "l", "e", "v", "e", "l">>},
                  {<<"c", "h", "e", "c", "k", " ", "b", "a", "t", "t", "e", "r", "y">>}}],   \* line 469
    [branch |-> "system info",
     any    |-> {{<<"s", "y", "s", "t", "e", "m", " ", "i", "n", "f", "o">>},
                  {<<"s", "y", "s", "t", "e", "m", " ", "s", "t", "a", "t", "u", "s">>},
                  {<<"c", "h", "e", "c", "k", " ", "s", "y", "s", "t", "e", "m">>}}],   \* line 474
    [branch |-> "weather",
     any    |-> {{<<"w", "e", "a", "t", "h", "e", "r">>},
                  {<<"t", "e", "m", "p", "e", "r", "a", "t", "u", "r", "e">>},
                  {<<"f", "o", "r", "e", "c", "a", "s", "t">>}}],   \* line 480
    [branch |-> "set brightness",
     any    |-> {{<<"s", "e", "t", " ", "b", "r", "i", "g", "h", "t", "n", "e", "s", "s">>}}],   \* line 502
    [branch |-> "set volume",
     any    |-> {{<<"s", "e", "t", " ", "v", "o", "l", "u", "m", "e">>}}],   \* line 512
    [branch |-> "say time",
     any    |-> {{<<"s", "a", "y", " ", "t", "i", "m", "e">>}}],   \* line 522
    [branch |-> "say date",
     any    |-> {{<<"s", "a", "y", " ", "d", "a", "t", "e">>}}],   \* line 525
    [branch |-> "new task",
     any    |-> {{<<"n", "e", "w", " ", "t", "a", "s", "k">>},
                  {<<"a", "d", "d", " ", "t", "a", "s", "k">>}}],   \* line 532
    [branch |-> "delete task",
     any    |-> {{<<"d", "e", "l", "e", "t", "e", " ", "t", "a", "s", "k">>},
                  {<<"r", "e", "m", "o", "v", "e", " ", "t", "a", "s", "k">>}}],   \* line 553
    [branch |-> "complete task",
     any    |-> {{<<"c", "o", "m", "p", "l", "e", "t", "e", " ", "t", "a", "s", "k">>},
                  {<<"m", "a", "r", "k", " ", "t", "a", "s", "k", " ", "c", "o", "m", "p", "l", "e", "t", "e">>},
                  {<<"f", "i", "n", "i", "s", "h", " ", "t", "a", "s", "k">>}}],   \* line 571
    [branch |-> "speak task",
     any    |-> {{<<"s", "p", "e", "a", "k", " ", "t", "a", "s", "k">>},
                  {<<"r", "e", "a", "d", " ", "t", "a", "s", "k", "s">>},
                  {<<"l", "i", "s", "t", " ", "t", "a", "s", "k", "s">>}}],   \* line 589
    [branch |-> "task summary",
     any    |-> {{<<"t", "a", "s", "k", " ", "s", "u", "m", "m", "a", "r", "y">>},
                  {<<"t", "a", "s", "k", " ", "s", "t", "a", "t", "u", "s">>}}],   \* line 593
    [branch |-> "show tasks",
     any    |-> {{<<"s", "h", "o", "w", " ", "w", "o", "r", "k">>},
                  {<<"s", "h", "o", "w", " ", "t", "a", "s", "k", "s">>}}],   \* line 597
    [branch |-> "clear completed",
     any    |-> {{<<"c", "l", "e", "a", "r", " ", "c", "o", "m", "p", "l", "e", "t", "e", "d">>},
                  {<<"c", "l", "e", "a", "r", " ", "f", "i", "n", "i", "s", "h", "e", "d", " ", "t", "a", "s", "k", "s">>}}],   \* line 610
    [branch |-> "search task",
     any    |-> {{<<"s", "e", "a", "r", "c", "h", " ", "t", "a", "s", "k">>},
                  {<<"f", "i", "n", "d", " ", "t", "a", "s", "k">>}}],   \* line 614
    [branch |-> "move",
     any    |-> {{<<"m", "o", "v", "e">>, <<"f", "r", "o", "m">>, <<"t", "o">>}}],   \* line 638
    [branch |-> "copy",
     any    |-> {{<<"c", "o", "p", "y">>, <<"f", "r", "o", "m">>, <<"t", "o">>}}],   \* line 659
    [branch |-> "delete from",
     any    |-> {{<<"d", "e", "l", "e", "t", "e">>, <<"f", "r", "o", "m">>}}],   \* line 680
    [branch |-> "open",
     any    |-> {{<<"o", "p", "e", "n">>}}],   \* line 699
    [branch |-> "wikipedia",
     any    |-> {{<<"w", "i", "k", "i", "p", "e", "d", "i", "a">>}}],   \* line 707
    [branch |-> "search google",
     any    |-> {{<<"s", "e", "a", "r", "c", "h", " ", "g", "o", "o", "g", "l", "e">>}}],   \* line 717
    [branch |-> "search youtube",
     any    |-> {{<<"s", "e", "a", "r", "c", "h", " ", "y", "o", "u", "t", "u", "b", "e">>}}],   \* line 723
    [branch |-> "open whatsapp",
     any    |-> {{<<"o", "p", "e", "n", " ", "w", "h", "a", "t", "s", "a", "p", "p">>},
                  {<<"l", "a", "u", "n", "c", "h", " ", "w", "h", "a", "t", "s", "a", "p", "p">>},
                  {<<"s", "t", "a", "r", "t", " ", "w", "h", "a", "t", "s", "a", "p", "p">>}}],   \* line 731
    [branch |-> "send whatsapp",
     any    |-> {{<<"s", "e", "n", "d", " ", "w", "h", "a", "t", "s", "a", "p", "p">>},
                  {<<"w", "h", "a", "t", "s", "a", "p", "p", " ", "m", "e", "s", "s", "a", "g", "e">>},
                  {<<"s", "e", "n", "d", " ", "m", "e", "s", "s", "a", "g", "e">>}}],   \* line 745
    [branch |-> "list processes",
     any    |-> {{<<"l", "i", "s", "t", " ", "p", "r", "o", "c", "e", "s", "s", "e", "s">>},
                  {<<"s", "h", "o", "w", " ", "p", "r", "o", "c", "e", "s", "s", "e", "s">>},
                  {<<"r", "u", "n", "n", "i", "n", "g", " ", "p", "r", "o", "c", "e", "s", "s", "e", "s">>}}],   \* line 777
    [branch |-> "close",
     any    |-> {{<<"c", "l", "o", "s", "e">>},
                  {<<"k", "i", "l", "l">>}}],   \* line 791
    [branch |-> "start gesture control",
     any    |-> {{<<"s", "t", "a", "r", "t", " ", "g", "e", "s", "t", "u", "r", "e", " ", "c", "o", "n", "t", "r", "o", "l">>},
                  {<<"e", "n", "a", "b", "l", "e", " ", "g", "e", "s", "t", "u", "r", "e", " ", "c", "o", "n", "t", "r", "o", "l">>},
                  {<<"b", "e", "g", "i", "n", " ", "g", "e", "s", "t", "u", "r", "e", " ", "c", "o", "n", "t", "r", "o", "l">>}}],   \* line 812
    [branch |-> "stop gesture control",
     any    |-> {{<<"s", "t", "o", "p", " ", "g", "e", "s", "t", "u", "r", "e", " ", "c", "o", "n", "t", "r", "o", "l">>},
                  {<<"d", "i", "s", "a", "b", "l", "e", " ", "g", "e", "s", "t", "u", "r", "e", " ", "c", "o", "n", "t", "r", "o", "l">>},
                  {<<"e", "n", "d", " ", "g", "e", "s", "t", "u", "r", "e", " ", "c", "o", "n", "t", "r", "o", "l">>}}],   \* line 828
    [branch |-> "exit",
     any    |-> {{<<"e", "x", "i", "t">>},
                  {<<"q", "u", "i", "t">>}}]   \* line 844
>>
WAIT == <<"w", "a", "i", "t">>

Matches(row, utterance) ==
    \E alt \in row.any : \A phrase \in alt : Contains(phrase, utterance)

\* the branch of main_process a non-empty request reaches
Branch(utterance) ==
    LET hits == { i \in 1..Len(Triggers) : Matches(Triggers[i], utterance) }
    IN  IF Contains(WAIT, utterance) THEN "wait"
        ELSE IF hits = {} THEN "else"
        ELSE Triggers[CHOOSE i \in hits : \A j \in hits : i <= j].branch

\* branches modelled statement by statement; every other branch calls an
\* external actuator and speaks its reply
StoreBranches == {"new task", "delete task", "complete task", "search task"}

OwnBranches == StoreBranches \cup {"wait", "exit", "else"}

NEW_TASK == <<"n", "e", "w", " ", "t", "a", "s", "k">>
ADD_TASK == <<"a", "d", "d", " ", "t", "a", "s", "k">>
DELETE_TASK == <<"d", "e", "l", "e", "t", "e", " ", "t", "a", "s", "k">>
REMOVE_TASK == <<"r", "e", "m", "o", "v", "e", " ", "t", "a", "s", "k">>
COMPLETE_TASK == <<"c", "o", "m", "p", "l", "e", "t", "e", " ", "t", "a", "s", "k">>
MARK_TASK_COMPLETE == <<"m", "a", "r", "k", " ", "t", "a", "s", "k", " ", "c", "o", "m", "p", "l", "e", "t", "e">>
FINISH_TASK == <<"f", "i", "n", "i", "s", "h", " ", "t", "a", "s", "k">>
SEARCH_TASK == <<"s", "e", "a", "r", "c", "h", " ", "t", "a", "s", "k">>
FIND_TASK == <<"f", "i", "n", "d", " ", "t", "a", "s", "k">>

HighWords == {<<"h", "i", "g", "h", " ", "p", "r", "i", "o", "r", "i", "t", "y">>,
              <<"u", "r", "g", "e", "n", "t">>,
              <<"i", "m", "p", "o", "r", "t", "a", "n", "t">>}

LowWords == {<<"l", "o", "w", " ", "p", "r", "i", "o", "r", "i", "t", "y">>,
             <<"n", "o", "t", " ", "u", "r", "g", "e", "n", "t">>}

PRIORITY_HIGH == <<"h", "i", "g", "h">>
PRIORITY_LOW == <<"l", "o", "w">>

\* priority chosen by the new task branch, lines 536-540
SpokenPriority(utterance) ==
    IF \E word \in HighWords : Contains(word, utterance) THEN PRIORITY_HIGH
    ELSE IF \E word \in LowWords : Contains(word, utterance) THEN PRIORITY_LOW
    ELSE MEDIUM

retries == 3

\* what the recognizer can hear at line 343 and in a follow-up call
Utterances == {
    <<"a", "d", "d", " ", "a", " ", "n", "e", "w", " ", "t", "a", "s", "k", " ", "b", "u", "y", " ", "m", "i", "l", "k">>,
    <<"n", "e", "w", " ", "t", "a", "s", "k">>,
    <<"d", "e", "l", "e", "t", "e", " ", "t", "a", "s", "k">>,
    <<"f", "i", "n", "i", "s", "h", " ", "t", "a", "s", "k">>,
    <<"s", "e", "a", "r", "c", "h", " ", "t", "a", "s", "k">>,
    <<"c", "l", "o", "s", "e", " ", "e", "x", "i", "t">>,
    <<"Q", "u", "i", "t">>,
    <<"w", "a", "i", "t">>,
    <<"m", "i", "l", "k">> }

Replies == { <<"e", "x", "i", "t">>, <<"1">> }

\* outcome of one pass of the for loop of command(): the recognizer returns
\* a text, or listen / recognize_google raises
CaptureEvents(from) ==
    { [kind |-> "heard", text |-> u] :
          u \in IF from = "" THEN Utterances ELSE Replies }
    \cup { [kind |-> k, text |-> <<>>] :
               k \in {"timeout", "unknown", "request_error", "error"} }

\* speak(audio), lines 56-58: engine.say and engine.runAndWait, which may raise
SpeakOutcomes == {"ok", "raise"}

ActuatorOutcomes == {"ok", "raise"}

NoRet == [kind |-> "none", text |-> <<>>]
Returned(text) == [kind |-> "text", text |-> text]
Raised == [kind |-> "raised", text |-> <<>>]

SORRY == "Sorry, something went wrong. Please try again."

InitLoop ==
    /\ InitStore
    /\ pc = "boot"
    /\ caller = ""
    /\ attempt = 0
    /\ event = ""
    /\ ret = NoRet
    /\ request = <<>>
    /\ branch = ""
    /\ said = <<>>
    /\ ExtOff

\* a command() call begins: line 343 (from = "") or a follow-up in a branch
Call_command(from) ==
    /\ pc' = "command"
    /\ caller' = from
    /\ attempt' = 0
    /\ event' = ""
    /\ ret' = NoRet

\* break out of the while loop
Break ==
    /\ pc' = "stopped"
    /\ caller' = ""
    /\ UNCHANGED <<attempt, event, ret>>

\* the handler of main_process, lines 851-853, after the try body has
\* spoken delivered: its own speak call is not protected
Handler(delivered) ==
    \/ /\ said' = delivered \o <<SORRY>>
       /\ Call_command("")
    \/ /\ said' = delivered
       /\ pc' = "crashed"
       /\ caller' = ""
       /\ UNCHANGED <<attempt, event, ret>>

\* the try body speaks msgs in order and then goes on with then, unless one
\* of the speak calls raises, which takes control to the handler
Speak(msgs, then) ==
    \/ /\ said' = msgs
       /\ then
    \/ \E k \in 1..Len(msgs) : Handler(SubSeq(msgs, 1, k - 1))

\* main_process, line 340: the greeting is spoken outside the try
Boot(sp) ==
    /\ pc = "boot"
    /\ IF sp = "ok"
       THEN /\ said' = <<"Synbi is now active.">>
            /\ Call_command("")
       ELSE /\ said' = <<>>
            /\ pc' = "crashed"
            /\ UNCHANGED <<caller, attempt, event, ret>>
    /\ UNCHANGED <<request, branch>>
    /\ UNCHANGED storeVars

\* the for loop of command() ends without a return: line 337
AfterPass ==
    IF attempt + 1 = retries
    THEN pc' = "returned" /\ ret' = Returned(<<>>)
    ELSE pc' = "command" /\ ret' = NoRet

\* command(), lines 317-337: one pass of the for loop
Attempt(ev, sp) ==
    /\ pc = "command"
    /\ attempt < retries
    /\ attempt' = attempt + 1
    /\ event' = ev.kind
    /\ CASE ev.kind = "heard" ->
              /\ sp = "ok"
              /\ said' = <<>>
              /\ pc' = "returned"
              /\ ret' = Returned(Lower(ev.text))
         [] ev.kind = "timeout" ->
              /\ sp = "ok"
              /\ said' = <<>>
              /\ AfterPass
         [] ev.kind = "unknown" ->
              IF sp = "ok"
              THEN /\ said' = <<"Sorry, I didn't catch that. Please say again.">>
                   /\ AfterPass
              ELSE /\ said' = <<>>
                   /\ pc' = "returned"
                   /\ ret' = Raised
         [] ev.kind = "request_error" ->
              IF sp = "ok"
              THEN /\ said' = <<"Sorry, I am unable to connect to the speech service.">>
                   /\ pc' = "returned"
                   /\ ret' = Returned(<<>>)
              ELSE /\ said' = <<>>
                   /\ pc' = "returned"
                   /\ ret' = Raised
         [] ev.kind = "error" ->
              IF sp = "ok"
              THEN /\ said' = <<SORRY>>
                   /\ AfterPass
              ELSE /\ said' = <<>>
                   /\ pc' = "returned"
                   /\ ret' = Raised
    /\ IF caller = ""
       THEN request' = <<>> /\ branch' = ""
       ELSE UNCHANGED <<request, branch>>
    /\ UNCHANGED caller
    /\ UNCHANGED storeVars

\* lines 343-345: command() returned no text, `continue`
DispatchEmpty ==
    /\ pc = "returned"
    /\ caller = ""
    /\ ret = Returned(<<>>)
    /\ said' = <<>>
    /\ Call_command("")
    /\ UNCHANGED <<request, branch>>
    /\ UNCHANGED storeVars

\* an exception left a command() call: main_process's handler takes it,
\* whether the call was the one of line 343 or a follow-up inside a branch
CommandRaised ==
    /\ pc = "returned"
    /\ ret = Raised
    /\ Handler(<<>>)
    /\ UNCHANGED <<request, branch>>
    /\ UNCHANGED storeVars

\* line 343 returned a text that reaches branch b
Dispatched(b) ==
    /\ pc = "returned"
    /\ caller = ""
    /\ ret.kind = "text"
    /\ ret.text # <<>>
    /\ Branch(ret.text) = b
    /\ request' = ret.text
    /\ branch' = b

\* the follow-up call of branch b returned: text is its value
FollowedUp(b) ==
    /\ pc = "returned"
    /\ caller = b
    /\ ret.kind = "text"
    /\ UNCHANGED <<request, branch>>

\* lines 347-349
DispatchWait ==
    /\ Dispatched("wait")
    /\ Speak(<<"Okay, going to sleep. Say 'Hey Synbi' to wake me up.">>, Break)
    /\ UNCHANGED storeVars

\* lines 844-846
DispatchExit ==
    /\ Dispatched("exit")
    /\ Speak(<<"Goodbye! See you later.">>, Break)
    /\ UNCHANGED storeVars

\* lines 848-849
DispatchElse ==
    /\ Dispatched("else")
    /\ Speak(<<"I didn't understand that. Please try again.">>, Call_command(""))
    /\ UNCHANGED storeVars

\* every other branch: the actuator it calls returns or raises, then the
\* branch speaks its reply
DispatchActuator(outcome) ==
    /\ pc = "returned"
    /\ caller = ""
    /\ ret.kind = "text"
    /\ ret.text # <<>>
    /\ Branch(ret.text) \notin OwnBranches
    /\ request' = ret.text
    /\ branch' = Branch(ret.text)
    /\ IF outcome = "ok"
       THEN Speak(<<"(reply of the branch)">>, Call_command(""))
       ELSE Handler(<<>>)
    /\ UNCHANGED storeVars

\* lines 532-551, up to the follow-up call
DispatchNewTask(now) ==
    /\ Dispatched("new task")
    /\ LET task_text == Strip(Remove(Remove(ret.text, NEW_TASK), ADD_TASK))
       IN  IF task_text # <<>>
           THEN /\ AddTask(task_text, SpokenPriority(ret.text), PyNone, now)
                /\ Speak(<<lastOp'.result.msg>>, Call_command(""))
           ELSE /\ UNCHANGED storeVars
                /\ Speak(<<"What task would you like to add?">>,
                         Call_command("new task"))

\* lines 546-551
FollowUpNewTask(now) ==
    /\ FollowedUp("new task")
    /\ IF ret.text # <<>>
       THEN /\ AddTask(ret.text, MEDIUM, PyNone, now)
            /\ Speak(<<lastOp'.result.msg>>, Call_command(""))
       ELSE /\ UNCHANGED storeVars
            /\ Speak(<<"No task specified.">>, Call_command(""))

\* lines 553-569, up to the follow-up call
DispatchDeleteTask(now) ==
    /\ Dispatched("delete task")
    /\ LET task_identifier ==
               Strip(Remove(Remove(ret.text, DELETE_TASK), REMOVE_TASK))
       IN  IF task_identifier # <<>>
           THEN /\ DeleteTask(task_identifier, now)
                /\ Speak(<<lastOp'.result.msg>>, Call_command(""))
           ELSE /\ UNCHANGED storeVars
                /\ IF tasks.tasks # <<>>
                   THEN Speak(<<"Which task would you like to delete? Say the number or task name.",
                                "(get_tasks_text)">>,
                              Call_command("delete task"))
                   ELSE Speak(<<"You have no tasks to delete.">>, Call_command(""))

\* lines 565-567: an empty follow-up is passed over without a word
FollowUpDeleteTask(now) ==
    /\ FollowedUp("delete task")
    /\ IF ret.text # <<>>
       THEN /\ DeleteTask(ret.text, now)
            /\ Speak(<<lastOp'.result.msg>>, Call_command(""))
       ELSE /\ UNCHANGED storeVars
            /\ said' = <<>>
            /\ Call_command("")

\* lines 571-587, up to the follow-up call
DispatchCompleteTask(now) ==
    /\ Dispatched("complete task")
    /\ LET task_identifier ==
               Strip(Remove(Remove(Remove(ret.text, COMPLETE_TASK),
                                   MARK_TASK_COMPLETE), FINISH_TASK))
       IN  IF task_identifier # <<>>
           THEN /\ CompleteTask(task_identifier, now)
                /\ Speak(<<lastOp'.result.msg>>, Call_command(""))
           ELSE /\ UNCHANGED storeVars
                /\ IF tasks.tasks # <<>>
                   THEN Speak(<<"Which task would you like to complete? Say the number or task name.",
                                "(get_tasks_text)">>,
                              Call_command("complete task"))
                   ELSE Speak(<<"You have no tasks to complete.">>, Call_command(""))

\* lines 583-585
FollowUpCompleteTask(now) ==
    /\ FollowedUp("complete task")
    /\ IF ret.text # <<>>
       THEN /\ CompleteTask(ret.text, now)
            /\ Speak(<<lastOp'.result.msg>>, Call_command(""))
       ELSE /\ UNCHANGED storeVars
            /\ said' = <<>>
            /\ Call_command("")

\* what the search branch speaks after search_tasks, lines 617-622
SearchReply(found) ==
    IF found # <<>> THEN "Found task(s): " ELSE "No tasks found containing "

\* lines 614-626, up to the follow-up call
DispatchSearchTask ==
    /\ Dispatched("search task")
    /\ LET search_term == Strip(Remove(Remove(ret.text, SEARCH_TASK), FIND_TASK))
       IN  IF search_term # <<>>
           THEN /\ SearchTasks(search_term)
                /\ Speak(<<SearchReply(lastOp'.found)>>, Call_command(""))
           ELSE /\ UNCHANGED storeVars
                /\ Speak(<<"What would you like to search for?">>,
                         Call_command("search task"))

\* lines 627-634
FollowUpSearchTask ==
    /\ FollowedUp("search task")
    /\ IF ret.text # <<>>
       THEN /\ SearchTasks(ret.text)
            /\ Speak(<<SearchReply(lastOp'.found)>>, Call_command(""))
       ELSE /\ UNCHANGED storeVars
            /\ said' = <<>>
            /\ Call_command("")

NextLoop ==
    \/ \E sp \in SpeakOutcomes : Boot(sp) /\ UNCHANGED extVars
    \/ \E ev \in CaptureEvents(caller), sp \in SpeakOutcomes : Attempt(ev, sp) /\ UNCHANGED extVars
    \/ DispatchEmpty /\ UNCHANGED extVars
    \/ CommandRaised /\ UNCHANGED extVars
    \/ DispatchWait /\ UNCHANGED extVars
    \/ DispatchExit /\ UNCHANGED extVars
    \/ DispatchElse /\ UNCHANGED extVars
    \/ \E outcome \in ActuatorOutcomes : DispatchActuator(outcome) /\ UNCHANGED extVars
    \/ \E now \in Times : DispatchNewTask(now) /\ UNCHANGED extVars
    \/ \E now \in Times : FollowUpNewTask(now) /\ UNCHANGED extVars
    \/ \E now \in Times : DispatchDeleteTask(now) /\ UNCHANGED extVars
    \/ \E now \in Times : FollowUpDeleteTask(now) /\ UNCHANGED extVars
    \/ \E now \in Times : DispatchCompleteTask(now) /\ UNCHANGED extVars
    \/ \E now \in Times : FollowUpCompleteTask(now) /\ UNCHANGED extVars
    \/ DispatchSearchTask /\ UNCHANGED extVars
    \/ FollowUpSearchTask /\ UNCHANGED extVars

SpecLoop == InitLoop /\ [][NextLoop]_vars

(***************************************************************************)
(* The file operations of src/file_manager.py on one item: its entry in   *)
(* the source folder, the destination folder, and the entry of the same    *)
(* name in the destination folder.  An entry is absent, a file or a        *)
(* folder; data names its content, so that an overwrite is visible.        *)
(***************************************************************************)
NoEntry == [kind |-> "none", data |-> "", readable |-> FALSE]

Exists(entry) == entry.kind # "none"

\* os.path.exists(path) and os.access(path, os.R_OK)
validate_path(entry) == Exists(entry) /\ entry.readable

\* what os.makedirs, shutil.move, shutil.copy2/copytree, os.remove/rmtree can do
MakedirsOutcomes == {"ok", "error"}
TransferOutcomes == {"ok", "permission", "error"}

\* the disks a call can find: the source entry absent, a readable file or
\* folder, or a file that cannot be read; the destination folder present or
\* not, with or without an entry of the same name
InitialDisks ==
    { d \in [src : { NoEntry,
                     [kind |-> "file", data |-> "A", readable |-> TRUE],
                     [kind |-> "dir", data |-> "A", readable |-> TRUE],
                     [kind |-> "file", data |-> "A", readable |-> FALSE] },
             to_folder : BOOLEAN,
             dst : { NoEntry,
                     [kind |-> "file", data |-> "B", readable |-> TRUE],
                     [kind |-> "dir", data |-> "B", readable |-> TRUE] }] :
        Exists(d.dst) => d.to_folder }

FileCall(op, result, removals) == [op |-> op, result |-> result, removals |-> removals]

InitFiles ==
    /\ InitStore /\ LoopOff /\ SessionsOff /\ GestureOff /\ ClicksOff
    /\ disk \in InitialDisks
    /\ fpc = "idle"
    /\ cattempt = 0
    /\ response = [event |-> "none", text |-> <<>>]
    /\ confirmation = ""
    /\ fileOp = FileCall("", "", 0)

Refusal_NoExistsCheck(d, mk) ==
    IF ~validate_path(d.src) THEN "Error: not found or path is not accessible."
    ELSE IF ~d.to_folder /\ mk = "error" THEN "Error: Could not create destination folder"
    ELSE ""

\* the checks move_item and copy_item make before they touch the disk: the
\* result they return at once, or "" when the transfer goes ahead
Refusal(d, mk) ==
    IF ~validate_path(d.src) THEN "Error: not found or path is not accessible."
    ELSE IF ~d.to_folder /\ mk = "error" THEN "Error: Could not create destination folder"
    ELSE IF Exists(d.dst) THEN "Error: already exists. Cannot move or copy."
    ELSE ""

\* the disk once the destination folder has been looked at: os.makedirs
\* creates it when it is missing
WithFolder(d, mk) ==
    IF validate_path(d.src) /\ ~d.to_folder /\ mk = "ok"
    THEN [d EXCEPT !.to_folder = TRUE] ELSE d

Failure(outcome) == IF outcome = "permission" THEN "Error: Permission denied." ELSE "Error moving, copying or deleting"

move_item(mk, outcome) ==
    /\ fpc = "idle"
    /\ LET refusal == Refusal(disk, mk)
           d == WithFolder(disk, mk)
       IN IF refusal # ""
          THEN /\ disk' = d
               /\ fileOp' = FileCall("move_item", refusal, 0)
          ELSE IF outcome = "ok"
          THEN /\ disk' = [d EXCEPT !.dst = d.src, !.src = NoEntry]
               /\ fileOp' = FileCall("move_item", "Successfully moved", 0)
          ELSE /\ disk' = d
               /\ fileOp' = FileCall("move_item", Failure(outcome), 0)
    /\ UNCHANGED <<fpc, cattempt, response, confirmation>>

copy_item(mk, outcome) ==
    /\ fpc = "idle"
    /\ LET refusal == Refusal(disk, mk)
           d == WithFolder(disk, mk)
       IN IF refusal # ""
          THEN /\ disk' = d
               /\ fileOp' = FileCall("copy_item", refusal, 0)
          ELSE IF outcome = "ok"
          THEN /\ disk' = [d EXCEPT !.dst = d.src]
               /\ fileOp' = FileCall("copy_item", "Successfully copied", 0)
          ELSE /\ disk' = d
               /\ fileOp' = FileCall("copy_item", Failure(outcome), 0)
    /\ UNCHANGED <<fpc, cattempt, response, confirmation>>

(***************************************************************************)
(* listen_for_confirmation: up to max_attempts passes of capture and       *)
(* recognition.  The recognised text is lower-cased and compared with two  *)
(* lists of tokens; a timeout, an unintelligible capture and any other     *)
(* error use up the pass.                                                  *)
(***************************************************************************)
max_attempts == 3

Affirmative == { <<"y", "e", "s">>, <<"y", "e", "a", "h">>, <<"y", "e", "p">>, <<"s", "u", "r", "e">>, <<"o", "k", "a", "y">>, <<"o", "k">>, <<"c", "o", "n", "f", "i", "r", "m">> }

Negative == { <<"n", "o">>, <<"n", "o", "p", "e">>, <<"n", "a", "h">>, <<"c", "a", "n", "c", "e", "l">>, <<"s", "t", "o", "p">> }

Confirms_Contains(text) == \E t \in Affirmative : Contains(t, Lower(text))

Confirms(text) == Lower(text) \in Affirmative

\* what one pass can capture
ConfirmationEvents ==
    { [event |-> "heard", text |-> t] : t \in
          { <<"Y", "e", "s">>, <<"o", "k">>, <<"n", "o">>,
            <<"C", "a", "n", "c", "e", "l">>,
            <<"y", "e", "s", " ", "p", "l", "e", "a", "s", "e">>,
            <<"m", "a", "y", "b", "e">> } }
        \cup { [event |-> e, text |-> <<>>] : e \in {"timeout", "unknown", "error"} }

\* delete_item up to the call of listen_for_confirmation
delete_item ==
    /\ fpc = "idle"
    /\ IF ~validate_path(disk.src)
       THEN /\ fileOp' = FileCall("delete_item", "Error: not found or path is not accessible.", 0)
            /\ fpc' = "idle"
       ELSE /\ fileOp' = FileCall("delete_item", "", 0)
            /\ fpc' = "confirm"
    /\ cattempt' = 0
    /\ response' = [event |-> "none", text |-> <<>>]
    /\ confirmation' = ""
    /\ UNCHANGED disk

\* one pass of the loop of listen_for_confirmation
listen_for_confirmation_Unbounded(ev) ==
    /\ fpc = "confirm"
    /\ cattempt' = IF cattempt < max_attempts THEN cattempt + 1 ELSE cattempt
    /\ response' = [event |-> ev.event, text |-> Lower(ev.text)]
    /\ IF ev.event = "heard" /\ Confirms(ev.text)
       THEN confirmation' = "yes" /\ fpc' = "answered"
       ELSE IF ev.event = "heard" /\ Lower(ev.text) \in Negative
       THEN confirmation' = "no" /\ fpc' = "answered"
       ELSE UNCHANGED <<confirmation, fpc>>
    /\ UNCHANGED <<disk, fileOp>>

listen_for_confirmation(ev) ==
    /\ fpc = "confirm"
    /\ cattempt < max_attempts
    /\ cattempt' = cattempt + 1
    /\ response' = [event |-> ev.event, text |-> Lower(ev.text)]
    /\ IF ev.event = "heard" /\ Confirms(ev.text)
       THEN confirmation' = "yes" /\ fpc' = "answered"
       ELSE IF ev.event = "heard" /\ Lower(ev.text) \in Negative
       THEN confirmation' = "no" /\ fpc' = "answered"
       ELSE IF cattempt + 1 = max_attempts
       THEN confirmation' = "no" /\ fpc' = "answered"
       ELSE UNCHANGED <<confirmation, fpc>>
    /\ UNCHANGED <<disk, fileOp>>

\* delete_item from the return of listen_for_confirmation
delete_item_Confirmed(outcome) ==
    /\ fpc = "answered"
    /\ IF confirmation # "yes"
       THEN /\ fileOp' = FileCall("delete_item", "Delete operation cancelled.", 0)
            /\ UNCHANGED disk
       ELSE IF outcome = "ok"
       THEN /\ fileOp' = FileCall("delete_item", "Successfully deleted", fileOp.removals + 1)
            /\ disk' = [disk EXCEPT !.src = NoEntry]
       ELSE /\ fileOp' = FileCall("delete_item", Failure(outcome), fileOp.removals + 1)
            /\ UNCHANGED disk
    /\ fpc' = "idle"
    /\ UNCHANGED <<cattempt, response, confirmation>>

\* everything but the file operations
nonFileVars == <<storeVars, loopVars, sessionVars, gestureVars, clickVars>>

NextFiles ==
    \/ \E mk \in MakedirsOutcomes, outcome \in TransferOutcomes :
           move_item(mk, outcome) /\ UNCHANGED nonFileVars
    \/ \E mk \in MakedirsOutcomes, outcome \in TransferOutcomes :
           copy_item(mk, outcome) /\ UNCHANGED nonFileVars
    \/ delete_item /\ UNCHANGED nonFileVars
    \/ \E ev \in ConfirmationEvents : listen_for_confirmation(ev) /\ UNCHANGED nonFileVars
    \/ \E outcome \in TransferOutcomes :
           delete_item_Confirmed(outcome) /\ UNCHANGED nonFileVars

SpecFiles == InitFiles /\ [][NextFiles]_vars

(***************************************************************************)
(* The command loop entered with a trigger phrase as its first request:    *)
(* the greeting has been spoken and command() has returned the recognised  *)
(* phrase on its first pass.                                               *)
(***************************************************************************)
\* the phrases that are a trigger on their own
TriggerPhrases ==
    UNION { UNION { alt \in Triggers[i].any : Cardinality(alt) = 1 } :
                i \in 1..Len(Triggers) }

InitChain ==
    /\ InitStore
    /\ pc = "returned"
    /\ caller = ""
    /\ attempt = 1
    /\ event = "heard"
    /\ \E phrase \in TriggerPhrases \cup {WAIT, <<"m", "i", "l", "k">>} :
           ret = Returned(Lower(phrase))
    /\ request = <<>>
    /\ branch = ""
    /\ said = <<>>
    /\ ExtOff

\* the if/elif chain of main_process, lines 347-849, taken once
NextChain ==
    \/ DispatchWait /\ UNCHANGED extVars
    \/ DispatchExit /\ UNCHANGED extVars
    \/ DispatchElse /\ UNCHANGED extVars
    \/ \E outcome \in ActuatorOutcomes : DispatchActuator(outcome) /\ UNCHANGED extVars
    \/ \E now \in Times : DispatchNewTask(now) /\ UNCHANGED extVars
    \/ \E now \in Times : DispatchDeleteTask(now) /\ UNCHANGED extVars
    \/ \E now \in Times : DispatchCompleteTask(now) /\ UNCHANGED extVars
    \/ DispatchSearchTask /\ UNCHANGED extVars

SpecChain == InitChain /\ [][NextChain]_vars

(***************************************************************************)
(* TaskManager.get_tasks_text: the pending tasks as they are announced,    *)
(* numbered from 1 by their position in the pending list.                  *)
(***************************************************************************)
PriorityMark(priority) ==
    IF priority = <<"h", "i", "g", "h">> THEN "red"
    ELSE IF priority = <<"m", "e", "d", "i", "u", "m">> THEN "yellow"
    ELSE IF priority = <<"l", "o", "w">> THEN "green"
    ELSE "white"

get_tasks_text(store) ==
    IF store.tasks = <<>>
    THEN [msg |-> "You have no pending tasks.", items |-> <<>>]
    ELSE [msg |-> "Your pending tasks are: ",
          items |-> [i \in 1..Len(store.tasks) |->
                        [number |-> IntToStr(i),
                         mark |-> PriorityMark(store.tasks[i].priority),
                         text |-> store.tasks[i].text]]]

(***************************************************************************)
(* Two TaskManager instances on the same file, as two running assistants   *)
(* have them.  Each instance loads the file once, in __init__, and every   *)
(* save_tasks writes the whole store of the instance that calls it.  tasks *)
(* is the store of the instance at work, peer the store of the other one.  *)
(***************************************************************************)
InitSessions ==
    /\ InitStore
    /\ \E now \in Times : peer = load_tasks(MissingFile, now)
    /\ session = 1
    /\ LoopOff /\ FilesOff /\ GestureOff /\ ClicksOff

\* the other instance makes the next call
SwitchSession ==
    /\ tasks' = peer
    /\ peer' = tasks
    /\ session' = 3 - session
    /\ UNCHANGED <<file, lastOp>>

nonSessionVars == <<loopVars, fileVars, gestureVars, clickVars>>

NextSessions ==
    \/ SwitchSession /\ UNCHANGED nonSessionVars
    \/ \E now \in Times : Restart(now) /\ UNCHANGED <<sessionVars, nonSessionVars>>
    \/ \E task_text \in {<<"A">>, <<"b", "2">>}, now \in Times :
           AddTask(task_text, MEDIUM, PyNone, now) /\ UNCHANGED <<sessionVars, nonSessionVars>>
    \/ \E task_identifier \in InstantIdentifiers, now \in Times :
           DeleteTask(task_identifier, now) /\ UNCHANGED <<sessionVars, nonSessionVars>>
    \/ \E task_identifier \in InstantIdentifiers, now \in Times :
           CompleteTask(task_identifier, now) /\ UNCHANGED <<sessionVars, nonSessionVars>>

SpecSessions == InitSessions /\ [][NextSessions]_vars

(***************************************************************************)
(* The task store constructed over any file: missing, unreadable or not    *)
(* JSON, or valid JSON of another shape.  self.tasks["tasks"] and          *)
(* self.tasks["completed"] raise KeyError on a dict without these keys and *)
(* TypeError on a list; no operation catches them.                         *)
(***************************************************************************)
ShapeFiles == { MissingFile, CorruptFile, ForeignFile([t |-> "object"]), ForeignFile([t |-> "array"]) }

InitShapes ==
    /\ file \in ShapeFiles
    /\ \E now \in Times : tasks = load_tasks(file, now)
    /\ lastOp = Call("__init__", <<>>, <<>>, NoResult, 0, <<>>)
    /\ LoopOff /\ ExtOff

\* self.tasks[key] can be evaluated for both keys
HasLists(store) == {"tasks", "completed"} \subseteq DOMAIN store

\* the call ends by the exception of its first subscript
Raise(op, arg, priority) ==
    /\ lastOp' = Call(op, arg, priority, Msg(IF tasks.py = "dict" THEN "KeyError" ELSE "TypeError", <<>>, 0), 0, <<>>)
    /\ UNCHANGED <<tasks, file>>

add_task(task_text, priority, due_date, now) ==
    IF HasLists(tasks) \/ Strip(task_text) = <<>>
    THEN AddTask(task_text, priority, due_date, now)
    ELSE Raise("add_task", task_text, priority)

delete_task(task_identifier, now) ==
    IF HasLists(tasks) THEN DeleteTask(task_identifier, now)
    ELSE Raise("delete_task", task_identifier, <<>>)

complete_task(task_identifier, now) ==
    IF HasLists(tasks) THEN CompleteTask(task_identifier, now)
    ELSE Raise("complete_task", task_identifier, <<>>)

clear_completed_tasks(now) ==
    IF HasLists(tasks) THEN ClearCompletedTasks(now)
    ELSE Raise("clear_completed_tasks", <<>>, <<>>)

search_tasks(search_term) ==
    IF HasLists(tasks) THEN SearchTasks(search_term)
    ELSE Raise("search_tasks", search_term, <<>>)

NextShapes ==
    \/ \E now \in Times : Restart(now) /\ UNCHANGED <<loopVars, extVars>>
    \/ \E a \in AddArgs, now \in Times :
           add_task(a[1], a[2], a[3], now) /\ UNCHANGED <<loopVars, extVars>>
    \/ \E task_identifier \in Identifiers, now \in Times :
           delete_task(task_identifier, now) /\ UNCHANGED <<loopVars, extVars>>
    \/ \E task_identifier \in Identifiers, now \in Times :
           complete_task(task_identifier, now) /\ UNCHANGED <<loopVars, extVars>>
    \/ \E now \in Times : clear_completed_tasks(now) /\ UNCHANGED <<loopVars, extVars>>
    \/ \E search_term \in SearchTerms :
           search_tasks(search_term) /\ UNCHANGED <<loopVars, extVars>>

SpecShapes == InitShapes /\ [][NextShapes]_vars

(***************************************************************************)
(* The threads of src/simple_gesture_control.py.  The main thread calls    *)
(* start_gesture_control and stop_gesture_control; every call of           *)
(* start_gesture_control that finds a camera starts a worker thread that   *)
(* runs _gesture_detection_loop.  All threads call _provide_feedback,      *)
(* which takes no lock: between its statements any other thread may run.   *)
(***************************************************************************)
\* seconds between two feedbacks, line 79
throttle == 2

\* hasattr(self, '_last_feedback_time') and current_time - it < 2.0
Throttled(current_time, last) == last # Unset /\ current_time - last < throttle

\* thread t calls _provide_feedback and goes on at position next once the
\* call has returned: the time is read and compared with the stamp
ProvideFeedback(t, next) ==
    /\ pcs' = [pcs EXCEPT ![t] = next]
    /\ IF Throttled(clock, last_feedback_time)
       THEN UNCHANGED <<fb, seen>>
       ELSE /\ fb' = [fb EXCEPT ![t] = "passed"]
            /\ seen' = [seen EXCEPT ![t] = clock]
    /\ UNCHANGED <<clock, last_feedback_time, lastDelivered>>

\* self._last_feedback_time = current_time
FeedbackStamp(t) ==
    /\ fb[t] = "passed"
    /\ last_feedback_time' = seen[t]
    /\ fb' = [fb EXCEPT ![t] = "stamped"]
    /\ UNCHANGED <<is_running, pcs, seen, clock, lastDelivered>>

\* the callback (or print) is entered; the delivery counts as fired at the
\* time its call read
FeedbackBegin(t) ==
    /\ fb[t] = "stamped"
    /\ fb' = [fb EXCEPT ![t] = "delivering"]
    /\ lastDelivered' = seen[t]
    /\ UNCHANGED <<is_running, pcs, seen, clock, last_feedback_time>>

\* the callback returns, and with it _provide_feedback
FeedbackEnd(t) ==
    /\ fb[t] = "delivering"
    /\ fb' = [fb EXCEPT ![t] = "out"]
    /\ seen' = [seen EXCEPT ![t] = 0]
    /\ UNCHANGED <<is_running, pcs, clock, last_feedback_time, lastDelivered>>

\* thread t is at position p and in no call
At(t, p) == pcs[t] = p /\ fb[t] = "out"

\* start_gesture_control up to the return of its first feedback
start_gesture_control(camera) ==
    /\ At(MAIN, "idle")
    /\ CASE camera = "found" ->
              /\ is_running' = TRUE
              /\ ProvideFeedback(MAIN, "thread")
         [] camera = "none" ->
              /\ UNCHANGED is_running
              /\ ProvideFeedback(MAIN, "demo")
         [] camera = "error" ->
              /\ UNCHANGED is_running
              /\ ProvideFeedback(MAIN, "idle")

\* threading.Thread(target=self._gesture_detection_loop).start(), return True
StartThread ==
    /\ At(MAIN, "thread")
    /\ \E w \in Workers :
           /\ pcs[w] = "none"
           /\ \A v \in Workers : pcs[v] = "none" => w <= v
           /\ pcs' = [pcs EXCEPT ![MAIN] = "idle", ![w] = "while"]
    /\ UNCHANGED <<is_running, fb, seen, clock, last_feedback_time, lastDelivered>>

\* no camera: is_running is set, the second feedback is given, return True
DemoMode ==
    /\ At(MAIN, "demo")
    /\ is_running' = TRUE
    /\ ProvideFeedback(MAIN, "idle")

\* stop_gesture_control: the flag is cleared and feedback given; the worker
\* is not joined
stop_gesture_control ==
    /\ At(MAIN, "idle")
    /\ is_running' = FALSE
    /\ ProvideFeedback(MAIN, "idle")

\* _gesture_detection_loop: `while self.is_running`
WhileTest(w) ==
    /\ At(w, "while")
    /\ pcs' = [pcs EXCEPT ![w] = IF is_running THEN "frame" ELSE "none"]
    /\ UNCHANGED <<is_running, fb, seen, clock, last_feedback_time, lastDelivered>>

\* one pass of the loop body: no gesture, a gesture whose mouse action gives
\* feedback, or the q key that breaks the loop
Frame(w, outcome) ==
    /\ At(w, "frame")
    /\ CASE outcome = "nothing" ->
              /\ pcs' = [pcs EXCEPT ![w] = "while"]
              /\ UNCHANGED <<fb, seen, clock, last_feedback_time, lastDelivered>>
         [] outcome = "gesture" ->
              ProvideFeedback(w, "while")
         [] outcome = "quit" ->
              /\ pcs' = [pcs EXCEPT ![w] = "none"]
              /\ UNCHANGED <<fb, seen, clock, last_feedback_time, lastDelivered>>
    /\ UNCHANGED is_running

\* time passes
Tick ==
    /\ clock < MaxClock
    /\ clock' = clock + 1
    /\ UNCHANGED <<is_running, pcs, fb, seen, last_feedback_time, lastDelivered>>

nonGestureVars == <<storeVars, loopVars, fileVars, sessionVars, clickVars>>

NextGesture ==
    \/ \E camera \in {"found", "none", "error"} : start_gesture_control(camera) /\ UNCHANGED nonGestureVars
    \/ StartThread /\ UNCHANGED nonGestureVars
    \/ DemoMode /\ UNCHANGED nonGestureVars
    \/ stop_gesture_control /\ UNCHANGED nonGestureVars
    \/ \E w \in Workers : WhileTest(w) /\ UNCHANGED nonGestureVars
    \/ \E w \in Workers, outcome \in {"nothing", "gesture", "quit"} : Frame(w, outcome) /\ UNCHANGED nonGestureVars
    \/ \E t \in Threads : FeedbackStamp(t) /\ UNCHANGED nonGestureVars
    \/ \E t \in Threads : FeedbackBegin(t) /\ UNCHANGED nonGestureVars
    \/ \E t \in Threads : FeedbackEnd(t) /\ UNCHANGED nonGestureVars
    \/ Tick /\ UNCHANGED nonGestureVars

\* the controller as constructed, the main thread idle
SpecGesture == Init /\ [][NextGesture]_vars

(***************************************************************************)
(* The gesture block of _gesture_detection_loop, one processed frame at a  *)
(* time.  A frame shows no hand, or a hand with a finger count and a       *)
(* displacement (dx, dy) of its smoothed position against the frame        *)
(* before.                                                                 *)
(***************************************************************************)
movement_threshold == 28

Abs(n) == IF n < 0 THEN 0 - n ELSE n

\* _detect_hand_movement on the displacement; "None" when no gesture
_detect_hand_movement(dx, dy, last_pos) ==
    IF last_pos = "None" THEN "None"
    ELSE IF Abs(dx) < movement_threshold /\ Abs(dy) < movement_threshold
    THEN "hand_detected"
    ELSE IF Abs(dx) > Abs(dy)
    THEN (IF dx > movement_threshold THEN "movement_right"
          ELSE IF dx < 0 - movement_threshold THEN "movement_left"
          ELSE "None")
    ELSE (IF dy > movement_threshold THEN "movement_down"
          ELSE IF dy < 0 - movement_threshold THEN "movement_up"
          ELSE "None")

\* self.mouse_gestures: what each gesture does to the mouse
mouse_gestures(gesture) ==
    CASE gesture = "hand_detected" -> "click"
      [] gesture = "two_fingers" -> "left click"
      [] gesture = "three_fingers" -> "right click"
      [] OTHER -> "move"

\* a frame in which no hand is detected: the gesture block is skipped
FrameWithoutHand(gap) ==
    /\ elapsed' = IF elapsed + gap < Cooled THEN elapsed + gap ELSE Cooled
    /\ finger_count' = 0
    /\ issued' = "none"
    /\ unreleased' = FALSE
    /\ UNCHANGED <<last_click_type, click_reset_required, last_hand_position>>

\* a frame with a hand
FrameWithHand(fingers, dx, dy, gap) ==
    LET since == IF elapsed + gap < Cooled THEN elapsed + gap ELSE Cooled
        left  == /\ since > gesture_cooldown
                 /\ fingers = 2
                 /\ (last_click_type # "left" \/ ~click_reset_required)
        right == /\ since > gesture_cooldown
                 /\ ~left
                 /\ fingers = 3
                 /\ (last_click_type # "right" \/ ~click_reset_required)
        gesture == IF since > gesture_cooldown /\ ~left /\ ~right
                   THEN _detect_hand_movement(dx, dy, last_hand_position)
                   ELSE "None"
        action == IF left THEN mouse_gestures("two_fingers")
                  ELSE IF right THEN mouse_gestures("three_fingers")
                  ELSE IF gesture # "None" THEN mouse_gestures(gesture)
                  ELSE "none"
    IN  /\ issued' = action
        /\ elapsed' = IF action # "none" THEN 0 ELSE since
        /\ IF fingers \notin {2, 3}
           THEN last_click_type' = "None" /\ click_reset_required' = FALSE
           ELSE IF left
           THEN last_click_type' = "left" /\ click_reset_required' = TRUE
           ELSE IF right
           THEN last_click_type' = "right" /\ click_reset_required' = TRUE
           ELSE UNCHANGED <<last_click_type, click_reset_required>>
        /\ last_hand_position' = "known"
        /\ finger_count' = fingers
        /\ unreleased' = IF fingers \notin {2, 3} THEN FALSE
                         ELSE IF left \/ right THEN TRUE
                         ELSE unreleased

nonClickVars == <<storeVars, loopVars, fileVars, sessionVars, gestureVars>>

\* frames follow each other by 7, 20 or 40 hundredths of a second; a hand
\* shows 1, 2, 3 or 5 fingers and has moved by less than, exactly or more
\* than the threshold
NextClicks ==
    \/ \E gap \in {7, 20, 40} : FrameWithoutHand(gap) /\ UNCHANGED nonClickVars
    \/ \E fingers \in {1, 2, 3, 5}, dx \in {-29, 0, 28, 29}, dy \in {-29, 0, 28, 29},
          gap \in {7, 20, 40} :
           FrameWithHand(fingers, dx, dy, gap) /\ UNCHANGED nonClickVars

\* the controller as constructed, before its first frame
SpecClicks == Init /\ [][NextClicks]_vars

(***************************************************************************)
(* Vocabulary of the properties.  Every operation records its call in      *)
(* lastOp, so a step that changes the state and ends with lastOp.op = op   *)
(* is a call of op.                                                        *)
(***************************************************************************)
Called(op) == lastOp'.op = op

CalledLookup == Called("delete_task") \/ Called("complete_task")

Blank(s) == \A k \in 1..Len(s) : s[k] \in Whitespace

\* t is s without its leading and trailing whitespace
IsTrimOf(t, s) ==
    /\ t # <<>> => (t[1] \notin Whitespace /\ t[Len(t)] \notin Whitespace)
    /\ \E a \in 0..Len(s) :
           /\ a + Len(t) <= Len(s)
           /\ SubSeq(s, a + 1, a + Len(t)) = t
           /\ \A k \in 1..a : s[k] \in Whitespace
           /\ \A k \in (a + Len(t) + 1)..Len(s) : s[k] \in Whitespace

\* the identifier reads as an integer / as the integer n
Numeric(s) == ParseInt(s).ok

IdHit(task, task_identifier) ==
    Numeric(task_identifier) /\ task.id = ParseInt(task_identifier).val

\* text contains the identifier, letter case ignored
ContainsCI(needle, text) == Contains(Lower(needle), Lower(text))

NotFoundMsgs == {"Task not found with that ID.", "Task not found with that text."}

SuccessMsgs == {"Task deleted: ", "Task completed: "}

(***************************************************************************)
(* C1: no task is at the same time in the pending list and in the          *)
(* completed list, and a complete_task call that matched a pending task    *)
(* removes that task from pending and appends a task with the same text    *)
(* (status completed, completed_date set) to completed.                    *)
(***************************************************************************)
C1_NeverInBoth ==
    \A i \in 1..Len(tasks.tasks), j \in 1..Len(tasks.completed) :
        tasks.tasks[i] # tasks.completed[j]

C1_CompleteMoves ==
    (Called("complete_task") /\ lastOp'.result.msg = "Task completed: ")
    => \E i \in 1..Len(tasks.tasks) :
           /\ IdHit(tasks.tasks[i], lastOp'.arg)
              \/ ContainsCI(lastOp'.arg, tasks.tasks[i].text)
           /\ tasks'.tasks = RemoveAt(tasks.tasks, i)
           /\ Len(tasks'.completed) = Len(tasks.completed) + 1
           /\ SubSeq(tasks'.completed, 1, Len(tasks.completed)) = tasks.completed
           /\ LET done == tasks'.completed[Len(tasks'.completed)]
              IN  /\ done.text = tasks.tasks[i].text
                  /\ done.text = lastOp'.result.text
                  /\ done.status = COMPLETED
                  /\ done.completed_date # PyNone

C1_PendingXorCompleted == [](C1_NeverInBoth) /\ [][C1_CompleteMoves]_vars

\* a task was completed while another one stayed pending
C1_Witness ==
    /\ lastOp.op = "complete_task"
    /\ lastOp.result.msg = "Task completed: "
    /\ Len(tasks.tasks) > 0
    /\ Len(tasks.completed) > 0

(***************************************************************************)
(* C2: add_task with a text that is not blank appends exactly one task at  *)
(* the end of pending: its text is the trimmed text, its status pending,   *)
(* its completed_date None, its priority the lowercased priority argument  *)
(* (medium by default); the tasks pending before and the completed list    *)
(* are unchanged.                                                          *)
(***************************************************************************)
C2_AddAppends ==
    (Called("add_task") /\ ~Blank(lastOp'.arg))
    => /\ Len(tasks'.tasks) = Len(tasks.tasks) + 1
       /\ SubSeq(tasks'.tasks, 1, Len(tasks.tasks)) = tasks.tasks
       /\ tasks'.completed = tasks.completed
       /\ LET new == tasks'.tasks[Len(tasks'.tasks)]
          IN  /\ IsTrimOf(new.text, lastOp'.arg)
              /\ new.status = "pending"
              /\ new.completed_date = PyNone
              /\ lastOp'.priority = MEDIUM => new.priority = MEDIUM
              /\ new.priority = Lower(lastOp'.priority)

C2_AddTaskAppends == [][C2_AddAppends]_vars

\* a text with surrounding blanks was added behind an earlier pending task
C2_Witness ==
    /\ lastOp.op = "add_task"
    /\ lastOp.result.msg = "Task added successfully: "
    /\ Len(tasks.tasks) = 2
    /\ Len(lastOp.arg) > Len(tasks.tasks[2].text)

(***************************************************************************)
(* C3: add_task with an empty or whitespace-only text returns the          *)
(* validation error, changes neither pending nor completed and does not    *)
(* write the file.                                                         *)
(***************************************************************************)
C3_BlankRejected ==
    (Called("add_task") /\ Blank(lastOp'.arg))
    => /\ lastOp'.result.msg = "Error: Task cannot be empty."
       /\ lastOp'.saves = 0
       /\ tasks' = tasks
       /\ file' = file

C3_AddTaskRejectsBlank == [][C3_BlankRejected]_vars

\* a whitespace-only text was rejected while a task was pending and saved
C3_Witness ==
    /\ lastOp.op = "add_task"
    /\ lastOp.arg = <<" ">>
    /\ lastOp.result.msg = "Error: Task cannot be empty."
    /\ Len(tasks.tasks) > 0
    /\ file.kind = "json"

(***************************************************************************)
(* C4: delete_task and complete_task with an integer no pending task has   *)
(* as id, or with a text no pending task's text contains, return a not     *)
(* found message and leave pending, completed and the file as they were.   *)
(***************************************************************************)
C4_NoMatch(pending, task_identifier) ==
    IF Numeric(task_identifier)
    THEN \A i \in 1..Len(pending) : ~IdHit(pending[i], task_identifier)
    ELSE \A i \in 1..Len(pending) : ~ContainsCI(task_identifier, pending[i].text)

C4_NotFoundNoChange ==
    (CalledLookup /\ C4_NoMatch(tasks.tasks, lastOp'.arg))
    => /\ lastOp'.result.msg \in NotFoundMsgs
       /\ lastOp'.saves = 0
       /\ tasks' = tasks
       /\ file' = file

C4_NotFoundLeavesStore == [][C4_NotFoundNoChange]_vars

\* an id nobody has was looked up while tasks were pending and saved
C4_Witness ==
    /\ lastOp.op \in {"delete_task", "complete_task"}
    /\ lastOp.result.msg = "Task not found with that ID."
    /\ Len(tasks.tasks) > 0
    /\ file.kind = "json"

(***************************************************************************)
(* C5: the pending tasks have pairwise distinct ids.                       *)
(***************************************************************************)
C5_DistinctPendingIds ==
    \A i, j \in 1..Len(tasks.tasks) :
        i # j => tasks.tasks[i].id # tasks.tasks[j].id

(***************************************************************************)
(* C6, as claimed: whenever some pending task matches the identifier by id *)
(* or by text, delete_task and complete_task do not answer not found.      *)
(***************************************************************************)
C6_EitherStrategy ==
    (CalledLookup
     /\ \E i \in 1..Len(tasks.tasks) :
            \/ IdHit(tasks.tasks[i], lastOp'.arg)
            \/ ContainsCI(lastOp'.arg, tasks.tasks[i].text))
    => lastOp'.result.msg \notin NotFoundMsgs

C6_NotFoundOnlyIfNoStrategyMatches == [][C6_EitherStrategy]_vars

(***************************************************************************)
(* C6, amended: the strategy is chosen by the identifier alone.  An        *)
(* identifier that reads as an integer is looked up by id only, any other  *)
(* by text only; the call answers not found exactly when no pending task   *)
(* matches under that one strategy, and otherwise removes one pending task *)
(* and saves.                                                               *)
(***************************************************************************)
C6_OneStrategy ==
    CalledLookup
    => IF C4_NoMatch(tasks.tasks, lastOp'.arg)
       THEN lastOp'.result.msg \in NotFoundMsgs
       ELSE /\ lastOp'.result.msg \in SuccessMsgs
            /\ lastOp'.saves = 1
            /\ Len(tasks'.tasks) = Len(tasks.tasks) - 1

C6_NotFoundIffChosenStrategyFails == [][C6_OneStrategy]_vars

\* a numeric identifier was not found although a pending text contains it
C6_Witness ==
    /\ lastOp.op \in {"delete_task", "complete_task"}
    /\ lastOp.result.msg = "Task not found with that ID."
    /\ \E i \in 1..Len(tasks.tasks) : ContainsCI(lastOp.arg, tasks.tasks[i].text)

(***************************************************************************)
(* C7: with an identifier that does not read as an integer, delete_task    *)
(* and complete_task act on the first pending task whose text contains the *)
(* identifier (letter case ignored) and on no other: the remaining pending *)
(* tasks keep their order, delete_task leaves completed alone and          *)
(* complete_task appends that one task to it.                              *)
(***************************************************************************)
C7_FirstHit(pending, task_identifier, i) ==
    /\ ContainsCI(task_identifier, pending[i].text)
    /\ \A j \in 1..(i - 1) : ~ContainsCI(task_identifier, pending[j].text)

C7_ByTextFirst ==
    (CalledLookup /\ ~Numeric(lastOp'.arg))
    => \A i \in 1..Len(tasks.tasks) :
           C7_FirstHit(tasks.tasks, lastOp'.arg, i)
           => /\ tasks'.tasks = RemoveAt(tasks.tasks, i)
              /\ lastOp'.result.text = tasks.tasks[i].text
              /\ IF Called("delete_task")
                 THEN tasks'.completed = tasks.completed
                 ELSE /\ Len(tasks'.completed) = Len(tasks.completed) + 1
                      /\ SubSeq(tasks'.completed, 1, Len(tasks.completed))
                             = tasks.completed
                      /\ tasks'.completed[Len(tasks'.completed)].text
                             = tasks.tasks[i].text

C7_TextLookupTakesFirst == [][C7_ByTextFirst]_vars

\* a text lookup acted although a later pending task matched as well
C7_Witness ==
    /\ lastOp.op \in {"delete_task", "complete_task"}
    /\ ~Numeric(lastOp.arg)
    /\ lastOp.result.msg \in SuccessMsgs
    /\ \E i \in 1..Len(tasks.tasks) : ContainsCI(lastOp.arg, tasks.tasks[i].text)

(***************************************************************************)
(* C8: search_tasks returns exactly the pending tasks whose text contains  *)
(* the term (letter case ignored), in pending order, never a completed     *)
(* task, and changes neither the store nor the file.                       *)
(***************************************************************************)
C8_TermIn(task) == ContainsCI(lastOp.arg, task.text)

C8_Found ==
    lastOp.op = "search_tasks"
    => /\ lastOp.found = SelectSeq(tasks.tasks, C8_TermIn)
       /\ \A k \in 1..Len(lastOp.found) :
              /\ lastOp.found[k].status = "pending"
              /\ \A j \in 1..Len(tasks.completed) :
                     lastOp.found[k] # tasks.completed[j]

C8_ReadOnly == Called("search_tasks") => (tasks' = tasks /\ file' = file)

C8_SearchExact == [](C8_Found) /\ [][C8_ReadOnly]_vars

\* a search returned the second of two pending tasks and not the first
C8_Witness ==
    /\ lastOp.op = "search_tasks"
    /\ Len(lastOp.found) = 1
    /\ Len(tasks.tasks) = 2
    /\ lastOp.found[1] = tasks.tasks[2]

(***************************************************************************)
(* C9: for every store the operations can produce, a save_tasks that       *)
(* writes the file followed by load_tasks gives back the same pending and  *)
(* completed sequences: same tasks, same field values, same order.         *)
(***************************************************************************)
C9_RoundTrip ==
    \A now \in Times :
        LET saved  == save_tasks(tasks, file, now, "ok")
            loaded == load_tasks(saved.file, now)
        IN  /\ saved.ok
            /\ loaded.tasks = tasks.tasks
            /\ loaded.completed = tasks.completed
            /\ loaded = saved.store

\* a store with a pending and a completed task (None and a date to encode)
C9_Witness ==
    /\ Len(tasks.tasks) > 0
    /\ Len(tasks.completed) > 0
    /\ tasks.tasks[1].completed_date = PyNone
    /\ tasks.completed[1].completed_date # PyNone

(***************************************************************************)
(* C10: an add_task, delete_task, complete_task or clear_completed_tasks   *)
(* call that changes pending or completed calls save_tasks exactly once; a *)
(* call that answers not found or the validation error calls it not at all *)
(* and leaves the file alone; and whenever the file holds a document (the  *)
(* last save succeeded) its tasks and completed equal the ones in memory.  *)
(***************************************************************************)
MutatingOps == {"add_task", "delete_task", "complete_task", "clear_completed_tasks"}

C10_SaveOnChange ==
    lastOp'.op \in MutatingOps
    => /\ (tasks'.tasks # tasks.tasks \/ tasks'.completed # tasks.completed)
          => lastOp'.saves = 1
       /\ lastOp'.result.msg \in NotFoundMsgs \cup {"Error: Task cannot be empty."}
          => (lastOp'.saves = 0 /\ file' = file)

C10_FileInStep ==
    file.kind = "json"
    => /\ JsonLoad(file.doc).tasks = tasks.tasks
       /\ JsonLoad(file.doc).completed = tasks.completed

C11_SaveFailed ==
    /\ lastOp'.op \in MutatingOps
    /\ lastOp'.saves = 1
    /\ file'.kind # "json"

C11_Reported ==
    C11_SaveFailed => lastOp'.result.msg = "Error: Could not save task."

C11_Reconciled == file.kind = "json" => JsonLoad(file.doc) = tasks

C11_SaveFailureReported == [][C11_Reported]_vars /\ [](C11_Reconciled)

(***************************************************************************)
(* C12: completion is irreversible within a process.  Pending tasks carry  *)
(* no completed_date and completed ones carry one; pending receives a task *)
(* only from add_task, never from completed; an entry of completed never   *)
(* changes (its completed_date included) while it stays there; completed   *)
(* grows only by complete_task appending a pending task stamped with the   *)
(* time of the call, and shrinks only by clear_completed_tasks, which      *)
(* empties it and leaves pending as it was.                                *)
(***************************************************************************)
C12_Dated ==
    /\ \A i \in 1..Len(tasks.tasks) :
           /\ tasks.tasks[i].completed_date = PyNone
           /\ tasks.tasks[i].status = PENDING
    /\ \A i \in 1..Len(tasks.completed) :
           /\ tasks.completed[i].completed_date # PyNone
           /\ tasks.completed[i].status = COMPLETED

C12_PendingFromAddOnly ==
    \A i \in 1..Len(tasks'.tasks) :
        \/ \E j \in 1..Len(tasks.tasks) : tasks'.tasks[i] = tasks.tasks[j]
        \/ /\ Called("add_task")
           /\ i = Len(tasks'.tasks)
           /\ Len(tasks'.tasks) = Len(tasks.tasks) + 1

C12_CompletedStep ==
    \/ tasks'.completed = tasks.completed
    \/ /\ Called("complete_task")
       /\ \E i \in 1..Len(tasks.tasks), now \in Instants :
              tasks'.completed =
                  Append(tasks.completed,
                         [tasks.tasks[i] EXCEPT
                              !.status = COMPLETED,
                              !.completed_date = PyStr(IsoFormat(now))])
    \/ /\ Called("clear_completed_tasks")
       /\ tasks'.completed = <<>>
       /\ tasks'.tasks = tasks.tasks

C12_Irreversible ==
    lastOp'.op # "__init__" => (C12_PendingFromAddOnly /\ C12_CompletedStep)

C12_CompletionIrreversible == [](C12_Dated) /\ [][C12_Irreversible]_vars

\* a task completed at instant 0 is still in completed, unchanged, after a
\* later completion at instant 1
C12_Witness ==
    /\ Len(tasks.completed) = 2
    /\ tasks.completed[1].completed_date = PyStr(IsoFormat(0))
    /\ tasks.completed[2].completed_date = PyStr(IsoFormat(1))
    /\ lastOp.op = "complete_task"

(***************************************************************************)
(* C13: loading never fails.  When a TaskManager is constructed while the  *)
(* file is missing or holds no parseable document, load_tasks returns (the *)
(* constructor completes), the store it yields is the new structure with   *)
(* empty pending and empty completed and fresh timestamps, and the file is *)
(* left as it was.                                                         *)
(***************************************************************************)
C13_NoDocument == file.kind \in {"missing", "corrupt"}

C13_EmptyStore ==
    (Called("__init__") /\ C13_NoDocument)
    => /\ tasks'.tasks = <<>>
       /\ tasks'.completed = <<>>
       /\ \E now \in Times :
              /\ tasks'.created_date = IsoFormat(now)
              /\ tasks'.last_modified = IsoFormat(now)
       /\ file' = file

C13_LoadNeverFails ==
    /\ [][C13_EmptyStore]_vars
    /\ \A f \in {MissingFile, CorruptFile}, now \in Times :
           /\ load_tasks(f, now).tasks = <<>>
           /\ load_tasks(f, now).completed = <<>>

\* a process started on a file that a failed write had truncated
C13_Witness ==
    /\ lastOp.op = "__init__"
    /\ file.kind = "corrupt"
    /\ tasks.tasks = <<>>
    /\ tasks.completed = <<>>

(***************************************************************************)
(* C14: when line 343 has captured "add a new task buy milk" and the store *)
(* is empty, the utterance reaches the new task branch and the store then  *)
(* holds exactly one pending task, with text "buy milk" and priority       *)
(* "medium".                                                               *)
(***************************************************************************)
C14_Utterance == <<"a", "d", "d", " ", "a", " ", "n", "e", "w", " ", "t", "a", "s", "k", " ", "b", "u", "y", " ", "m", "i", "l", "k">>

C14_Captured ==
    /\ pc = "returned"
    /\ caller = ""
    /\ ret = Returned(C14_Utterance)
    /\ tasks.tasks = <<>>
    /\ tasks.completed = <<>>

C14_BuyMilk ==
    C14_Captured
    => /\ branch' = "new task"
       /\ Len(tasks'.tasks) = 1
       /\ tasks'.tasks[1].text = <<"b", "u", "y", " ", "m", "i", "l", "k">>
       /\ tasks'.tasks[1].priority = MEDIUM
       /\ tasks'.completed = <<>>

C14_AddANewTaskBuyMilk == [][C14_BuyMilk]_vars

(***************************************************************************)
(* C15: whenever a command() call of the loop, the one of line 343 or a    *)
(* follow-up call inside a branch, has returned a text containing "exit"   *)
(* or "quit", the loop's next step is the return of main_process, and the  *)
(* utterance causes no other action: the exit branch is the one taken and  *)
(* the task store is not touched.                                          *)
(***************************************************************************)
EXIT == <<"e", "x", "i", "t">>
QUIT == <<"q", "u", "i", "t">>

C15_ExitCaptured ==
    /\ pc = "returned"
    /\ ret.kind = "text"
    /\ Contains(EXIT, ret.text) \/ Contains(QUIT, ret.text)

C15_Stops ==
    C15_ExitCaptured
    => /\ pc' = "stopped"
       /\ branch' = "exit"
       /\ UNCHANGED storeVars

C15_ExitFromEveryState == [][C15_Stops]_vars

(***************************************************************************)
(* C16: when the utterance is a bare trigger of the add, delete, complete  *)
(* or search intent (the parameter is missing), the branch speaks a prompt *)
(* and makes one follow-up command() call (delete and complete have        *)
(* nothing to ask about when no task is pending); when that call returns   *)
(* no text, the next step speaks a message, leaves the task store as it    *)
(* was and goes back to line 343, without a second follow-up.              *)
(***************************************************************************)
C16_BareTriggers ==
    {NEW_TASK, ADD_TASK, DELETE_TASK, REMOVE_TASK, COMPLETE_TASK,
     MARK_TASK_COMPLETE, FINISH_TASK, SEARCH_TASK, FIND_TASK}

C16_Reprompt ==
    (/\ pc = "returned"
     /\ caller = ""
     /\ ret.kind = "text"
     /\ ret.text \in C16_BareTriggers
     /\ (ret.text \in {NEW_TASK, ADD_TASK, SEARCH_TASK, FIND_TASK}
         \/ tasks.tasks # <<>>))
    => /\ said' # <<>>
       /\ pc' = "command"
       /\ caller' = branch'
       /\ branch' \in StoreBranches
       /\ UNCHANGED storeVars

C16_Abandon ==
    (/\ pc = "returned"
     /\ caller \in StoreBranches
     /\ ret = Returned(<<>>))
    => /\ said' # <<>>
       /\ pc' = "command"
       /\ caller' = ""
       /\ UNCHANGED storeVars

C16_RepromptOnceThenAbandon == [][C16_Reprompt /\ C16_Abandon]_vars

(***************************************************************************)
(* C17: a command() call makes at most 3 passes of its for loop.  A pass   *)
(* that hears a text ends the call at once with the text in lower case; a  *)
(* pass that times out or hears nothing intelligible uses up one attempt   *)
(* and the loop goes on to the next pass; a third pass that hears no text  *)
(* ends the call with the empty string.                                    *)
(***************************************************************************)
C17_Bounded ==
    /\ attempt \in 0..retries
    /\ pc = "command" => attempt < retries

C17_Pass ==
    pc = "command"
    => /\ attempt' = attempt + 1
       /\ event' = "heard"
          => /\ pc' = "returned"
             /\ ret'.kind = "text"
             /\ ret'.text = Lower(ret'.text)
             /\ ret'.text # <<>>
       /\ (event' \in {"timeout", "unknown"} /\ attempt' < retries)
          => (pc' = "command" /\ ret' = NoRet)
       /\ (event' # "heard" /\ attempt' = retries)
          => (pc' = "returned" /\ ret' = Returned(<<>>))

C17_CommandTerminates == [](C17_Bounded) /\ [][C17_Pass]_vars

(***************************************************************************)
(* C18: a pass of command() that finds the speech service unreachable      *)
(* speaks the failure once and ends the call with the empty string, with   *)
(* no further pass; main_process takes the empty string of line 343 as no  *)
(* input (no branch, store unchanged, next command() call), and no return  *)
(* of command() without a text ends main_process.                          *)
(***************************************************************************)
C18_Surfaced ==
    (pc = "command" /\ event' = "request_error")
    => /\ said' = <<"Sorry, I am unable to connect to the speech service.">>
       /\ pc' = "returned"
       /\ ret' = Returned(<<>>)

C18_NoInput ==
    (pc = "returned" /\ caller = "" /\ ret = Returned(<<>>))
    => /\ pc' = "command"
       /\ caller' = ""
       /\ attempt' = 0
       /\ branch' = ""
       /\ UNCHANGED storeVars

C18_KeepsRunning ==
    (pc = "returned" /\ (ret.kind # "text" \/ ret.text = <<>>))
    => pc' \notin {"stopped", "crashed"}

C18_UnreachableService == [][C18_Surfaced /\ C18_NoInput /\ C18_KeepsRunning]_vars

(***************************************************************************)
(* C19: while a captured utterance is being dispatched, no failure leaves  *)
(* main_process: the step ends at the next command() call or at the break  *)
(* of the wait or exit branch, and main_process ends in no other way.      *)
(***************************************************************************)
C19_Dispatching == pc = "returned" /\ ret.kind = "text" /\ ret.text # <<>>

C19_Caught ==
    C19_Dispatching
    => \/ pc' = "command"
       \/ pc' = "stopped" /\ branch' \in {"wait", "exit"}

C19_EndsByBreak ==
    (pc \notin {"stopped", "crashed"} /\ pc' \in {"stopped", "crashed"})
    => (pc' = "stopped" /\ branch' \in {"wait", "exit"})

C19_FailuresCaught == [][C19_Caught /\ C19_EndsByBreak]_vars

(***************************************************************************)
(* C20: a raising speak call never ends main_process: no exception leaves  *)
(* it, neither at start-up, nor in a branch, nor in its handler.           *)
(***************************************************************************)
C20_SpeakNeverFatal == pc # "crashed"

(***************************************************************************)
(* C21: delete_item removes the item only when the confirmation step       *)
(* returned "yes", which takes a recognised utterance that is exactly an   *)
(* affirmative token; after a negative token, an unrecognised utterance, a *)
(* timeout or a capture error the item is still on disk and the result is  *)
(* the cancellation message; after "yes" the removal is performed once.    *)
(***************************************************************************)
C21_SaidYes == response.event = "heard" /\ response.text \in Affirmative

C21_Finishing == fpc = "answered" /\ fpc' = "idle"

C21_OnlyOnYes ==
    /\ (fileOp'.op = "delete_item" /\ disk' # disk) => (confirmation = "yes" /\ C21_SaidYes)
    /\ (C21_Finishing /\ ~C21_SaidYes) =>
           (disk' = disk /\ fileOp'.result = "Delete operation cancelled." /\ fileOp'.removals = 0)
    /\ (C21_Finishing /\ C21_SaidYes) => fileOp'.removals = 1

C21_Answer == fpc = "answered" => (confirmation = "yes" <=> C21_SaidYes)

C21_DeleteNeedsYes == [][C21_OnlyOnYes]_vars /\ [](C21_Answer) /\ [](fileOp.removals <= 1)

C21_Witness ==
    /\ fileOp = FileCall("delete_item", "Successfully deleted", 1)
    /\ ~Exists(disk.src)
    /\ C21_SaidYes

(***************************************************************************)
(* C22: listen_for_confirmation terminates after at most three attempts:   *)
(* an affirmative token returns "yes" at once, a negative token returns    *)
(* "no" at once, and three attempts without a valid token return "no".     *)
(***************************************************************************)
C22_Returns(answer) == fpc' = "answered" /\ confirmation' = answer

C22_Heard(tokens) == response'.event = "heard" /\ response'.text \in tokens

C22_EachPass ==
    (fpc = "confirm" /\ <<cattempt, response>>' # <<cattempt, response>>) =>
        /\ cattempt' = cattempt + 1
        /\ C22_Heard(Affirmative) => C22_Returns("yes")
        /\ C22_Heard(Negative) => C22_Returns("no")
        /\ (~C22_Heard(Affirmative \cup Negative) /\ cattempt' = max_attempts) =>
               C22_Returns("no")
        /\ (~C22_Heard(Affirmative \cup Negative) /\ cattempt' < max_attempts) =>
               fpc' = "confirm"

C22_AttemptsLeft ==
    /\ cattempt <= max_attempts
    /\ fpc = "confirm" => cattempt < max_attempts

C22_ConfirmationTerminates == [][C22_EachPass]_vars /\ [](C22_AttemptsLeft)

C22_Witness ==
    /\ fpc = "answered"
    /\ cattempt = max_attempts
    /\ confirmation = "no"
    /\ response.event = "timeout"

(***************************************************************************)
(* C24: move_item and copy_item never overwrite: when an entry of that     *)
(* name exists in the destination, or the source is missing or unreadable, *)
(* they return an error and leave source and destination as they were; a   *)
(* successful copy leaves the source in place.                             *)
(***************************************************************************)
C24_Transfer == fpc = "idle" /\ fileOp'.op \in {"move_item", "copy_item"}

C24_Errors ==
    {"Error: not found or path is not accessible.", "Error: Could not create destination folder", "Error: already exists. Cannot move or copy.", "Error: Permission denied.", "Error moving, copying or deleting"}

C24_Step ==
    C24_Transfer =>
        /\ (Exists(disk.dst) \/ ~Exists(disk.src) \/ ~disk.src.readable) =>
               (fileOp'.result \in C24_Errors /\ disk' = disk)
        /\ Exists(disk.dst) => disk'.dst = disk.dst
        /\ fileOp'.result = "Successfully copied" => (disk'.src = disk.src /\ disk'.dst = disk.src)
        /\ fileOp'.result = "Successfully moved" => (disk'.src = NoEntry /\ disk'.dst = disk.src)

C24_NeverOverwrites == [][C24_Step]_vars

C24_Witness ==
    /\ fileOp = FileCall("copy_item", "Error: already exists. Cannot move or copy.", 0)
    /\ disk.src = [kind |-> "file", data |-> "A", readable |-> TRUE]
    /\ disk.dst = [kind |-> "file", data |-> "B", readable |-> TRUE]

(***************************************************************************)
(* C26: no trigger is starved: the utterance that consists of exactly one  *)
(* trigger phrase of the chain is dispatched to the branch of that phrase  *)
(* ("open whatsapp" reaches the WhatsApp branch, not the generic "open").  *)
(***************************************************************************)
C26_OwnBranches(phrase) ==
    { Triggers[i].branch : i \in { j \in 1..Len(Triggers) : {phrase} \in Triggers[j].any } }

C26_NoTriggerStarved ==
    (branch # "" /\ request \in TriggerPhrases) => branch \in C26_OwnBranches(request)

(***************************************************************************)
(* C27: the number get_tasks_text announces for a pending task addresses   *)
(* that task: delete_task and complete_task called with an announced       *)
(* number act on the task listed under that number.                        *)
(***************************************************************************)
C27_Announced(store, number) ==
    { k \in 1..Len(get_tasks_text(store).items) :
          get_tasks_text(store).items[k].number = number }

C27_ActsOnListed ==
    CalledLookup =>
        \A k \in C27_Announced(tasks, lastOp'.arg) :
            /\ lastOp'.result.msg \in SuccessMsgs
            /\ lastOp'.result.text = get_tasks_text(tasks).items[k].text
            /\ tasks'.tasks = RemoveAt(tasks.tasks, k)

C27_NumberAddressesTask == [][C27_ActsOnListed]_vars

(***************************************************************************)
(* C25: with two TaskManager instances on the same file no update is lost: *)
(* after one instance has added a task and the other has added another,    *)
(* the file holds both, so an add_task that writes the file keeps every    *)
(* pending task the file held before.                                      *)
(***************************************************************************)
C25_InFile(f) ==
    IF f.kind = "json"
    THEN { JsonLoad(f.doc).tasks[i].text : i \in 1..Len(JsonLoad(f.doc).tasks) }
    ELSE {}

C25_AddKeeps ==
    (Called("add_task") /\ file' # file /\ file'.kind = "json")
    => C25_InFile(file) \subseteq C25_InFile(file')

C25_NoLostUpdate == [][C25_AddKeeps]_vars

(***************************************************************************)
(* C29: after construction, whatever the file holds (nothing, unreadable   *)
(* or unparseable text, or valid JSON of another shape such as {} or a     *)
(* list), the store has its tasks and completed sequences, and every later *)
(* add, delete, complete, search and clear call returns a result instead   *)
(* of raising.                                                             *)
(***************************************************************************)
C29_Exceptions == {"KeyError", "TypeError"}

C29_StoreAlwaysShaped ==
    /\ {"tasks", "completed"} \subseteq DOMAIN tasks
    /\ lastOp.result.msg \notin C29_Exceptions

(***************************************************************************)
(* C23: the deliveries of feedback are serialized and throttled also when  *)
(* _provide_feedback is called from the worker thread and from the main    *)
(* thread at once: no two deliveries overlap, and a message is delivered   *)
(* only when the one before fired at least two seconds earlier, so that at *)
(* most one message goes out per two-second window.                        *)
(***************************************************************************)
C23_Delivering == { t \in Threads : fb[t] = "delivering" }

C23_Serialized == Cardinality(C23_Delivering) <= 1

C23_Begins == \E t \in Threads : fb[t] # "delivering" /\ fb'[t] = "delivering"

C23_Spaced ==
    C23_Begins => (lastDelivered = Unset \/ lastDelivered' - lastDelivered >= throttle)

C23_FeedbackSerializedThrottled == [](C23_Serialized) /\ [][C23_Spaced]_vars

(***************************************************************************)
(* C28: at most one gesture worker thread is alive at any time, whatever   *)
(* the sequence of start and stop calls: start twice without a stop, and   *)
(* start right after stop, before the old worker has seen is_running       *)
(* False, included.                                                        *)
(***************************************************************************)
C28_Alive == { w \in Workers : pcs[w] # "none" }

C28_AtMostOneWorker == Cardinality(C28_Alive) <= 1

(***************************************************************************)
(* C30: click debounce.  After a two-finger (left) or three-finger (right) *)
(* click has fired, no mouse click of any kind is issued until a frame     *)
(* with a finger count other than 2 and 3 has been processed: fingers held *)
(* over any number of frames give exactly one click.                       *)
(***************************************************************************)
C30_Clicks == {"click", "left click", "right click"}

C30_HeldFrame == unreleased /\ finger_count' \in {2, 3}

C30_NoClickWhileHeld == C30_HeldFrame => issued' \notin C30_Clicks

C30_OneClickPerHold == [][C30_NoClickWhileHeld]_vars

====
